---- MODULE Spec2Model ----
(***************************************************************************)
(* Model of the analytics and forecasting tools of shopify-mcp             *)
(* (src/src/tools/discounts.ts, registerAnalyticsTools): the four report   *)
(* handlers shopify_store_analytics, shopify_forecast,                     *)
(* shopify_conversion_analysis and shopify_product_performance.            *)
(*                                                                         *)
(* Conventions                                                             *)
(*  - a JavaScript string is a TLA+ string; null/undefined string fields   *)
(*    are the empty string, which the code cannot tell apart from null     *)
(*    because it reads them only through `x || default`;                   *)
(*  - a JavaScript number is a record [k, n, d]: k = "fin" is the exact    *)
(*    rational n/d (d > 0, reduced), k = "nan" is NaN, k = "inf" is        *)
(*    +Infinity (n = 1) or -Infinity (n = -1);                             *)
(*  - time is counted in hours since 1 January 00:00 UTC of a non-leap     *)
(*    base year; the process time zone is UTC.                             *)
(***************************************************************************)
EXTENDS Integers, Sequences, FiniteSets, TLC

VARIABLES
    env_domain,   \* process.env.SHOPIFY_SHOP_DOMAIN ("" when unset)
    store,        \* the shop's orders, abandoned checkouts and customers
    now,          \* the clock: what new Date() gives the handler, in hours
    tool,         \* the tool whose handler ran last ("none" at start)
    params,       \* the parameters of that invocation
    sent,         \* the search queries it sent with its fetches
    fetched,      \* what executeGraphQL returned to it
    locals,       \* the values its loops gave their local variables
    result        \* the object the handler built, or the error it threw

vars == <<env_domain, store, now, tool, params, sent, fetched, locals, result>>

(***************************************************************************)
(* Strings                                                                 *)
(***************************************************************************)
CharAt(s, i) == SubSeq(s, i, i)

DropFirst(s, k) == SubSeq(s, k + 1, Len(s))

\* String.prototype.includes (true for the empty needle)
Includes(s, k) ==
    \E i \in 1..(Len(s) - Len(k) + 1) : SubSeq(s, i, i + Len(k) - 1) = k

\* String.prototype.endsWith
EndsWith(s, k) ==
    /\ Len(k) <= Len(s)
    /\ SubSeq(s, Len(s) - Len(k) + 1, Len(s)) = k

UpperChars == <<"A","B","C","D","E","F","G","H","I","J","K","L","M",
                "N","O","P","Q","R","S","T","U","V","W","X","Y","Z">>
LowerChars == <<"a","b","c","d","e","f","g","h","i","j","k","l","m",
                "n","o","p","q","r","s","t","u","v","w","x","y","z">>

IsUpper(c) == \E i \in 1..26 : UpperChars[i] = c
IsAlpha(c) == \E i \in 1..26 : UpperChars[i] = c \/ LowerChars[i] = c
IsSchemeChar(c) ==
    IsAlpha(c) \/ c \in {"0","1","2","3","4","5","6","7","8","9","+","-","."}

LowerChar(c) ==
    IF IsUpper(c) THEN LowerChars[CHOOSE i \in 1..26 : UpperChars[i] = c] ELSE c

RECURSIVE toLowerCase(_)
\* String.prototype.toLowerCase (ASCII)
toLowerCase(s) ==
    IF Len(s) = 0 THEN ""
    ELSE LowerChar(CharAt(s, 1)) \o toLowerCase(DropFirst(s, 1))

\* the first index >= from whose character is in cs, Len(s) + 1 when none
FirstOf(s, from, cs) ==
    IF \E i \in from..Len(s) : CharAt(s, i) \in cs
    THEN CHOOSE i \in from..Len(s) :
            /\ CharAt(s, i) \in cs
            /\ \A j \in from..(i - 1) : CharAt(s, j) \notin cs
    ELSE Len(s) + 1

\* the last index in from..to whose character is c, 0 when none
LastOf(s, from, to, c) ==
    IF \E i \in from..to : CharAt(s, i) = c
    THEN CHOOSE i \in from..to :
            /\ CharAt(s, i) = c
            /\ \A j \in (i + 1)..to : CharAt(s, j) # c
    ELSE 0

(***************************************************************************)
(* new URL(url).hostname, for absolute URLs without a base: the scheme is  *)
(* what precedes the first ":", a letter and then letters, digits, "+",    *)
(* "-" or "."; a special scheme (http, https, ...)   *)
(* skips the slashes and needs a non-empty host, which ends at the first   *)
(* "/", "\", "?" or "#"; userinfo (up to the last "@") and the port (from  *)
(* the first ":") are not part of the hostname; the parser lower-cases     *)
(* the host.  A string with no scheme does not parse (the constructor      *)
(* throws).  A non-special scheme has a host only after "//".              *)
(* The record is [ok, hostname].                                           *)
(***************************************************************************)
SpecialSchemes == {"http", "https", "ftp", "ws", "wss", "file"}

SchemeEnd(url) == FirstOf(url, 1, {":"})

HasScheme(url) ==
    LET e == SchemeEnd(url)
    IN /\ e > 1
       /\ e <= Len(url)
       /\ IsAlpha(CharAt(url, 1))
       /\ \A i \in 2..(e - 1) : IsSchemeChar(CharAt(url, i))

RECURSIVE SkipSlashes(_, _)
SkipSlashes(url, i) ==
    IF i <= Len(url) /\ CharAt(url, i) \in {"/", "\\"}
    THEN SkipSlashes(url, i + 1)
    ELSE i

HostOfAuthority(url, start) ==
    LET stop  == FirstOf(url, start, {"/", "\\", "?", "#"})
        at    == LastOf(url, start, stop - 1, "@")
        hfrom == IF at = 0 THEN start ELSE at + 1
        colon == FirstOf(url, hfrom, {":"})
        hto   == IF colon < stop THEN colon - 1 ELSE stop - 1
    IN SubSeq(url, hfrom, hto)

ParseURL(url) ==
    IF ~HasScheme(url) THEN [ok |-> FALSE, hostname |-> ""]
    ELSE LET e      == SchemeEnd(url)
             scheme == toLowerCase(SubSeq(url, 1, e - 1))
         IN IF scheme \in SpecialSchemes
            THEN LET host == HostOfAuthority(url, SkipSlashes(url, e + 1))
                 IN IF host = "" THEN [ok |-> FALSE, hostname |-> ""]
                    ELSE [ok |-> TRUE, hostname |-> toLowerCase(host)]
            ELSE IF SubSeq(url, e + 1, e + 2) = "//"
                 THEN [ok |-> TRUE, hostname |-> HostOfAuthority(url, e + 3)]
                 ELSE [ok |-> TRUE, hostname |-> ""]

\* getReferrerHost: the lower-cased hostname, "" standing for the null the
\* code returns (matchesHost tests `if (host)`, false for both)
getReferrerHost(url) ==
    IF url = "" THEN ""
    ELSE LET p == ParseURL(url)
         IN IF p.ok THEN toLowerCase(p.hostname) ELSE ""

\* const matchesHost = (ref, targetHost) => ...
matchesHost(ref, targetHost) ==
    LET host             == getReferrerHost(ref)
        normalizedTarget == toLowerCase(targetHost)
    IN IF host # ""
       THEN LET h == toLowerCase(host)
            IN h = normalizedTarget \/ EndsWith(h, "." \o normalizedTarget)
       ELSE Includes(toLowerCase(ref), normalizedTarget)

\* order.referrerUrl || order.landingPageUrl || ""
ReferrerOf(order) ==
    IF order.referrerUrl # "" THEN order.referrerUrl
    ELSE IF order.landingPageUrl # "" THEN order.landingPageUrl
    ELSE ""

\* the chain with the twitter test moved in front of the others
SourceOf_twitterFirst(referrer, shopDomain) ==
    IF \/ matchesHost(referrer, "twitter.com")
       \/ matchesHost(referrer, "t.co")
       \/ matchesHost(referrer, "x.com") THEN "twitter"
    ELSE IF Includes(referrer, "google") THEN "google"
    ELSE IF Includes(referrer, "facebook") \/ Includes(referrer, "fb.") THEN "facebook"
    ELSE IF Includes(referrer, "instagram") THEN "instagram"
    ELSE IF Includes(referrer, "tiktok") THEN "tiktok"
    ELSE IF \/ Includes(referrer, "email")
            \/ Includes(referrer, "klaviyo")
            \/ Includes(referrer, "mailchimp") THEN "email"
    ELSE IF Includes(referrer, "pinterest") THEN "pinterest"
    ELSE IF referrer # "" /\ ~Includes(referrer, shopDomain) THEN "referral"
    ELSE "direct"

\* the if / else-if chain of the trafficSources loop, for one referrer
SourceOf(referrer, shopDomain) ==
    IF Includes(referrer, "google") THEN "google"
    ELSE IF Includes(referrer, "facebook") \/ Includes(referrer, "fb.") THEN "facebook"
    ELSE IF Includes(referrer, "instagram") THEN "instagram"
    ELSE IF \/ matchesHost(referrer, "twitter.com")
            \/ matchesHost(referrer, "t.co")
            \/ matchesHost(referrer, "x.com") THEN "twitter"
    ELSE IF Includes(referrer, "tiktok") THEN "tiktok"
    ELSE IF \/ Includes(referrer, "email")
            \/ Includes(referrer, "klaviyo")
            \/ Includes(referrer, "mailchimp") THEN "email"
    ELSE IF Includes(referrer, "pinterest") THEN "pinterest"
    ELSE IF referrer # "" /\ ~Includes(referrer, shopDomain) THEN "referral"
    ELSE "direct"

(***************************************************************************)
(* Numbers                                                                 *)
(***************************************************************************)
Abs(x) == IF x < 0 THEN -x ELSE x
Sign(x) == IF x < 0 THEN -1 ELSE IF x > 0 THEN 1 ELSE 0

RECURSIVE GCD(_, _)
GCD(a, b) == IF b = 0 THEN Abs(a) ELSE GCD(b, a % b)

RECURSIVE Pow10(_)
Pow10(k) == IF k = 0 THEN 1 ELSE 10 * Pow10(k - 1)

NaN == [k |-> "nan", n |-> 0, d |-> 1]
Inf(s) == [k |-> "inf", n |-> s, d |-> 1]

\* the number n/d, d # 0, reduced
Fin(n, d) ==
    LET g == GCD(Abs(n), Abs(d))
    IN [k |-> "fin", n |-> Sign(d) * (n \div g), d |-> Abs(d) \div g]

Num(i) == Fin(i, 1)

IsFinite(x) == x.k = "fin"
IsNaN(x) == x.k = "nan"
SignOf(x) == Sign(x.n)

\* a + b
NAdd(a, b) ==
    IF IsNaN(a) \/ IsNaN(b) THEN NaN
    ELSE IF a.k = "inf" /\ b.k = "inf" THEN (IF a.n = b.n THEN a ELSE NaN)
    ELSE IF a.k = "inf" THEN a
    ELSE IF b.k = "inf" THEN b
    ELSE LET g == GCD(a.d, b.d)
         IN Fin(a.n * (b.d \div g) + b.n * (a.d \div g), (a.d \div g) * b.d)

NNeg(a) == IF IsNaN(a) THEN NaN ELSE [a EXCEPT !.n = -a.n]

\* a - b
NSub(a, b) == NAdd(a, NNeg(b))

\* a * b
NMul(a, b) ==
    IF IsNaN(a) \/ IsNaN(b) THEN NaN
    ELSE IF a.k = "inf" \/ b.k = "inf"
         THEN (IF a.n = 0 \/ b.n = 0 THEN NaN ELSE Inf(Sign(a.n) * Sign(b.n)))
    ELSE LET g1 == GCD(Abs(a.n), b.d)
             g2 == GCD(Abs(b.n), a.d)
         IN Fin((a.n \div g1) * (b.n \div g2), (a.d \div g2) * (b.d \div g1))

\* a / b (the sign of a zero divisor is taken as positive)
NDiv(a, b) ==
    IF IsNaN(a) \/ IsNaN(b) THEN NaN
    ELSE IF a.k = "inf" THEN (IF b.k = "inf" THEN NaN
                              ELSE Inf(IF b.n < 0 THEN -a.n ELSE a.n))
    ELSE IF b.k = "inf" THEN Num(0)
    ELSE IF b.n = 0 THEN (IF a.n = 0 THEN NaN ELSE Inf(Sign(a.n)))
    ELSE NMul(a, [k |-> "fin", n |-> Sign(b.n) * b.d, d |-> Abs(b.n)])

\* a > b, false when either is NaN
NGt(a, b) ==
    /\ ~IsNaN(a)
    /\ ~IsNaN(b)
    /\ IF a.k = "inf" THEN a.n = 1 /\ ~(b.k = "inf" /\ b.n = 1)
       ELSE IF b.k = "inf" THEN b.n = -1
       ELSE a.n * b.d > b.n * a.d

NLt(a, b) == NGt(b, a)
NGe(a, b) == ~IsNaN(a) /\ ~IsNaN(b) /\ ~NGt(b, a)

\* Math.round: the integer nearest to x, ties upwards
MathRound(x) ==
    IF ~IsFinite(x) THEN x
    ELSE Num((2 * x.n + x.d) \div (2 * x.d))

(***************************************************************************)
(* Number formatting and parsing                                           *)
(***************************************************************************)
Digits == <<"0","1","2","3","4","5","6","7","8","9">>

IsDigit(c) == \E i \in 1..10 : Digits[i] = c
DigitVal(c) == (CHOOSE i \in 1..10 : Digits[i] = c) - 1

RECURSIVE NatToString(_)
NatToString(n) ==
    IF n < 10 THEN Digits[n + 1]
    ELSE NatToString(n \div 10) \o Digits[(n % 10) + 1]

RECURSIVE PadZeros(_, _)
PadZeros(s, w) == IF Len(s) >= w THEN s ELSE PadZeros("0" \o s, w)

\* Number.prototype.toFixed(f): the nearest multiple of 10^-f to |x|, ties to
\* the larger, "-" in front of a negative x (a negative x that rounds to zero
\* prints as "-0.0")
toFixed(x, f) ==
    IF IsNaN(x) THEN "NaN"
    ELSE IF x.k = "inf" THEN (IF x.n > 0 THEN "Infinity" ELSE "-Infinity")
    ELSE LET a     == Abs(x.n)
             whole == a \div x.d
             rem   == a % x.d
             sc    == (2 * rem * Pow10(f) + x.d) \div (2 * x.d)
             w2    == IF sc = Pow10(f) THEN whole + 1 ELSE whole
             fr    == IF sc = Pow10(f) THEN 0 ELSE sc
             body  == IF f = 0 THEN NatToString(w2)
                      ELSE NatToString(w2) \o "." \o PadZeros(NatToString(fr), f)
         IN IF x.n < 0 THEN "-" \o body ELSE body

\* the length of the longest run of digits of s that starts at i
RECURSIVE DigitRun(_, _)
DigitRun(s, i) ==
    IF i <= Len(s) /\ IsDigit(CharAt(s, i)) THEN 1 + DigitRun(s, i + 1) ELSE 0

RECURSIVE DigitsValue(_)
DigitsValue(s) ==
    IF Len(s) = 0 THEN 0
    ELSE 10 * DigitsValue(SubSeq(s, 1, Len(s) - 1)) + DigitVal(CharAt(s, Len(s)))

\* parseFloat: an optional sign, digits, an optional "." and digits; the
\* longest such prefix is the value and what follows is ignored; NaN when the
\* prefix holds no digit.  (Exponents and leading blanks are outside the
\* inputs of this model.)
parseFloat(s) ==
    LET neg  == Len(s) > 0 /\ CharAt(s, 1) = "-"
        from == IF Len(s) > 0 /\ CharAt(s, 1) \in {"-", "+"} THEN 2 ELSE 1
        nInt == DigitRun(s, from)
        dot  == from + nInt <= Len(s) /\ CharAt(s, from + nInt) = "."
        nFr  == IF dot THEN DigitRun(s, from + nInt + 1) ELSE 0
        mag  == Fin(DigitsValue(SubSeq(s, from, from + nInt - 1)) * Pow10(nFr)
                      + DigitsValue(SubSeq(s, from + nInt + 1, from + nInt + nFr)),
                    Pow10(nFr))
    IN IF nInt + nFr = 0 THEN NaN
       ELSE IF neg THEN NNeg(mag) ELSE mag

\* parseFloat(x?.shopMoney?.amount || "0")
AmountOf(amount) == parseFloat(IF amount # "" THEN amount ELSE "0")

\* orders.reduce((sum, o) => sum + parseFloat(o.totalPriceSet?.shopMoney?.amount || "0"), 0)
\* The sum is taken by halves, which keeps the evaluation shallow for a full
\* page of records: NAdd is exact and a NaN or an infinity among the amounts
\* gives the same total in any grouping, so this is the total of the reduce.
RECURSIVE SumAmounts(_)
SumAmounts(orders) ==
    LET n    == Len(orders)
        half == n \div 2
    IN IF n = 0 THEN Num(0)
       ELSE IF n = 1 THEN NAdd(Num(0), AmountOf(orders[1].amount))
       ELSE NAdd(SumAmounts(SubSeq(orders, 1, half)),
                 SumAmounts(SubSeq(orders, half + 1, n)))

(***************************************************************************)
(* Time, dates and the order queries                                       *)
(***************************************************************************)
HoursPerDay == 24

\* date.toISOString().split('T')[0]: the UTC calendar day of a time, as a day
\* number (day numbers order as the "YYYY-MM-DD" strings do)
DateOf(t) == t \div HoursPerDay

\* new Date(t.getTime() - days * 24 * 60 * 60 * 1000)
MinusDays(t, days) == t - days * HoursPerDay
PlusDays(t, days) == t + days * HoursPerDay

NoDate == -1000000

\* the search query sent with a fetch: created_at:>=ge, and created_at:<lt
\* when lt is a date
QueryFrom(ge) == [ge |-> ge, lt |-> NoDate]
QueryBetween(ge, lt) == [ge |-> ge, lt |-> lt]
NoQuery == [ge |-> NoDate, lt |-> NoDate]

\* whether the store returns a record created at time t for query q: a date
\* in a created_at filter stands for the start of that day
Selects(q, t) ==
    /\ q # NoQuery
    /\ t >= q.ge * HoursPerDay
    /\ (q.lt # NoDate => t < q.lt * HoursPerDay)

\* the first n elements of a list (first: 250)
FirstN(list, n) == SubSeq(list, 1, IF Len(list) < n THEN Len(list) ELSE n)

PageSize == 250

\* what executeGraphQL returns for an orders (or checkouts, or customers)
\* query: the records of the store the query selects, at most a page
Fetch(records, q) ==
    FirstN(SelectSeq(records, LAMBDA r : Selects(q, r.createdAt)), PageSize)

(***************************************************************************)
(* shopify_store_analytics                                                 *)
(***************************************************************************)
\* o.lineItems.nodes.reduce((s, li) => s + li.quantity, 0)
RECURSIVE SumQuantities(_)
SumQuantities(items) ==
    IF Len(items) = 0 THEN 0 ELSE items[1].quantity + SumQuantities(Tail(items))

\* orders.reduce((sum, o) => sum + <the quantities of o's line items>, 0)
RECURSIVE totalItemsOf(_)
totalItemsOf(orders) ==
    IF Len(orders) = 0 THEN 0
    ELSE SumQuantities(orders[1].lineItems) + totalItemsOf(Tail(orders))

\* new Set(orders.filter(o => o.customer?.id).map(o => o.customer.id)).size
uniqueCustomersOf(orders) ==
    Cardinality({orders[i].customer.id :
                    i \in {j \in 1..Len(orders) :
                              /\ ~orders[j].customer.isNull
                              /\ orders[j].customer.id # ""}})

\* orders.filter(o => o.customer?.ordersCount > 1).length
returningCustomersOf(orders) ==
    Cardinality({i \in 1..Len(orders) :
                    /\ ~orders[i].customer.isNull
                    /\ orders[i].customer.ordersCount > 1})

\* const newCustomerOrders = totalOrders - returningCustomers
newCustomerOrdersOf(orders) == Len(orders) - returningCustomersOf(orders)

\* the count of a source set to 1 at every order instead of incremented
Bump_reset(counts, source) ==
    IF source \in DOMAIN counts
    THEN [counts EXCEPT ![source] = 1]
    ELSE counts @@ (source :> 1)

\* trafficSources[source] = (trafficSources[source] || 0) + 1
Bump(counts, source) ==
    IF source \in DOMAIN counts
    THEN [counts EXCEPT ![source] = @ + 1]
    ELSE counts @@ (source :> 1)

\* the trafficSources loop: the orders of each source, keyed by the sources met
RECURSIVE trafficSourcesOf(_, _)
trafficSourcesOf(orders, shopDomain) ==
    IF Len(orders) = 0 THEN <<>>
    ELSE Bump(trafficSourcesOf(SubSeq(orders, 1, Len(orders) - 1), shopDomain),
              SourceOf(ReferrerOf(orders[Len(orders)]), shopDomain))

NoComparison == [isNull |-> TRUE]

\* prevRevenue > 0 ? ((totalRevenue - prevRevenue) / prevRevenue * 100).toFixed(1) : "N/A"
changeOf(current, previous) ==
    IF NGt(previous, Num(0))
    THEN toFixed(NMul(NDiv(NSub(current, previous), previous), Num(100)), 1)
    ELSE "N/A"

\* the comparison object, null when no previous orders were fetched
comparisonOf(comparePrevious, orders, prevOrders) ==
    IF ~comparePrevious THEN NoComparison
    ELSE [isNull         |-> FALSE,
          revenue_change |-> changeOf(SumAmounts(orders), SumAmounts(prevOrders)),
          orders_change  |-> changeOf(Num(Len(orders)), Num(Len(prevOrders))),
          prev_revenue   |-> SumAmounts(prevOrders),
          prev_orders    |-> Len(prevOrders)]

\* the assumed conversion rate 0.025, as the divisor 1/40
ConversionDivisor == 40

\* Math.round(totalOrders / 0.025)
estimatedSessionsOf(totalOrders) == MathRound(Num(totalOrders * ConversionDivisor))

\* the times the handler derives from now and period_days
periodStartOf(t, period_days) == MinusDays(t, period_days)
previousPeriodStartOf(t, period_days) == MinusDays(periodStartOf(t, period_days), period_days)

currentQueryOf(t, period_days) == QueryFrom(DateOf(periodStartOf(t, period_days)))

previousQueryOf(t, period_days) ==
    QueryBetween(DateOf(previousPeriodStartOf(t, period_days)),
                 DateOf(periodStartOf(t, period_days)))

\* the analytics object of shopify_store_analytics
analyticsOf(t, p, orders, prevOrders, newCustomers, shopDomain) ==
    LET totalRevenue  == SumAmounts(orders)
        totalOrders   == Len(orders)
        avgOrderValue == IF totalOrders > 0
                         THEN NDiv(totalRevenue, Num(totalOrders)) ELSE Num(0)
        sessions      == estimatedSessionsOf(totalOrders)
    IN [period     |-> [days  |-> p.period_days,
                        start |-> DateOf(periodStartOf(t, p.period_days)),
                        end   |-> DateOf(t)],
        orders     |-> [total         |-> totalOrders,
                        daily_average |-> toFixed(NDiv(Num(totalOrders), Num(p.period_days)), 1),
                        items_sold    |-> totalItemsOf(orders)],
        revenue    |-> [total               |-> toFixed(totalRevenue, 2),
                        daily_average       |-> toFixed(NDiv(totalRevenue, Num(p.period_days)), 2),
                        average_order_value |-> toFixed(avgOrderValue, 2)],
        customers  |-> [unique_customers          |-> uniqueCustomersOf(orders),
                        new_customer_orders       |-> newCustomerOrdersOf(orders),
                        returning_customer_orders |-> returningCustomersOf(orders),
                        new_customers_acquired    |-> Len(newCustomers)],
        traffic    |-> [estimated_sessions       |-> sessions,
                        estimated_daily_sessions |-> MathRound(NDiv(sessions, Num(p.period_days))),
                        sources                  |-> trafficSourcesOf(orders, shopDomain)],
        comparison |-> comparisonOf(p.compare_previous, orders, prevOrders)]

(***************************************************************************)
(* shopify_forecast                                                        *)
(***************************************************************************)
DaysPerYear == 365

\* the days of a non-leap year before each month
DaysBeforeMonth == <<0, 31, 59, 90, 120, 151, 181, 212, 243, 273, 304, 334>>

\* date.getFullYear(), counted from the base year
YearOf(t) == DateOf(t) \div DaysPerYear

\* date.getMonth() + 1
MonthOf(t) ==
    LET doy == DateOf(t) % DaysPerYear
    IN CHOOSE m \in 1..12 :
          /\ DaysBeforeMonth[m] <= doy
          /\ (m < 12 => doy < DaysBeforeMonth[m + 1])

\* `${date.getFullYear()}-${String(date.getMonth() + 1).padStart(2, '0')}`, as
\* the number YYYYMM (which orders as the keys do under localeCompare)
monthKeyOf(t) == YearOf(t) * 100 + MonthOf(t)

\* the monthlyData loop: orders and revenue of each calendar month met
RECURSIVE monthlyDataOf(_)
monthlyDataOf(orders) ==
    IF Len(orders) = 0 THEN <<>>
    ELSE LET rest  == monthlyDataOf(SubSeq(orders, 1, Len(orders) - 1))
             o     == orders[Len(orders)]
             key   == monthKeyOf(o.createdAt)
             start == IF key \in DOMAIN rest THEN rest
                      ELSE rest @@ (key :> [orders |-> 0, revenue |-> Num(0)])
         IN [start EXCEPT ![key] = [orders  |-> @.orders + 1,
                                    revenue |-> NAdd(@.revenue, AmountOf(o.amount))]]

RECURSIVE SumOver(_, _, _)
\* the sum of f[k] over the keys k of ks, by op
SumOver(f, ks, field) ==
    IF ks = {} THEN Num(0)
    ELSE LET k == CHOOSE x \in ks : \A y \in ks : x >= y
         IN NAdd(SumOver(f, ks \ {k}, field),
                 IF field = "orders" THEN Num(f[k].orders) ELSE f[k].revenue)

Max(a, b) == IF a > b THEN a ELSE b

\* months.reduce((s, m) => s + m.orders, 0) / Math.max(months.length, 1)
avgMonthlyOrdersOf(monthlyData) ==
    NDiv(SumOver(monthlyData, DOMAIN monthlyData, "orders"),
         Num(Max(Cardinality(DOMAIN monthlyData), 1)))

\* the average over the months met, without the floor of one month
avgMonthlyRevenueOf_noFloor(monthlyData) ==
    NDiv(SumOver(monthlyData, DOMAIN monthlyData, "revenue"),
         Num(Cardinality(DOMAIN monthlyData)))

\* months.reduce((s, m) => s + m.revenue, 0) / Math.max(months.length, 1)
avgMonthlyRevenueOf(monthlyData) ==
    NDiv(SumOver(monthlyData, DOMAIN monthlyData, "revenue"),
         Num(Max(Cardinality(DOMAIN monthlyData), 1)))

\* month-over-month growth of the two latest month buckets, 0 with fewer
momGrowthOf(monthlyData) ==
    LET keys == DOMAIN monthlyData
    IN IF Cardinality(keys) < 2 THEN Num(0)
       ELSE LET lastKey   == CHOOSE k \in keys : \A y \in keys : k >= y
                prevKey   == CHOOSE k \in keys \ {lastKey} :
                                \A y \in keys \ {lastKey} : k >= y
                lastMonth == monthlyData[lastKey]
                prevMonth == monthlyData[prevKey]
            IN IF NGt(prevMonth.revenue, Num(0))
               THEN NDiv(NSub(lastMonth.revenue, prevMonth.revenue), prevMonth.revenue)
               ELSE Num(0)

\* growthMultipliers
growthMultipliers ==
    [conservative |-> Fin(2, 100), moderate |-> Fin(5, 100), aggressive |-> Fin(10, 100)]

\* the scenario's rate, whatever growth was observed
baseGrowthRateOf_scenarioOnly(momGrowth, growth_scenario) ==
    growthMultipliers[growth_scenario]

\* momGrowth > 0 ? momGrowth : growthMultipliers[growth_scenario]
baseGrowthRateOf(momGrowth, growth_scenario) ==
    IF NGt(momGrowth, Num(0)) THEN momGrowth ELSE growthMultipliers[growth_scenario]

\* seasonalFactors, in hundredths
seasonalFactors == <<85, 90, 95, 100, 100, 95, 90, 95, 100, 105, 120, 135>>

seasonalFactorOf(month) == Fin(seasonalFactors[month], 100)

DaysPerForecastMonth == 30

\* new Date(now.getTime() + i * 30 * 24 * 60 * 60 * 1000).getMonth() + 1
futureMonthOf(t, i) == MonthOf(PlusDays(t, i * DaysPerForecastMonth))

\* one pass of the loop body for month i: growth, then seasonality if enabled
projectStep(value, t, i, rate, include_seasonality) ==
    LET grown == NMul(value, NAdd(Num(1), rate))
    IN IF include_seasonality
       THEN NMul(grown, seasonalFactorOf(futureMonthOf(t, i)))
       ELSE grown

\* for (let i = 1; i <= monthsAhead; i++) { ... }, from the baseline
RECURSIVE projectedOf(_, _, _, _, _)
projectedOf(baseline, t, monthsAhead, rate, include_seasonality) ==
    IF monthsAhead < 1 THEN baseline
    ELSE projectStep(projectedOf(baseline, t, monthsAhead - 1, rate, include_seasonality),
                     t, monthsAhead, rate, include_seasonality)

\* one element of forecasts
forecastOf(t, monthsAhead, avgOrders, avgRevenue, rate, include_seasonality) ==
    LET projectedOrders  == projectedOf(avgOrders, t, monthsAhead, rate, include_seasonality)
        projectedRevenue == projectedOf(avgRevenue, t, monthsAhead, rate, include_seasonality)
    IN [months_ahead               |-> monthsAhead,
        date                       |-> DateOf(PlusDays(t, monthsAhead * DaysPerForecastMonth)),
        projected_monthly_orders   |-> MathRound(projectedOrders),
        projected_monthly_revenue  |-> toFixed(projectedRevenue, 2),
        projected_monthly_sessions |-> MathRound(NMul(projectedOrders, Num(ConversionDivisor))),
        growth_from_current        |->
            toFixed(NMul(NSub(NDiv(projectedRevenue, avgRevenue), Num(1)), Num(100)), 1)]

\* Math.sqrt, in thousandths, rounded down
SqrtMilli(h) ==
    CHOOSE r \in 0..(1000 * h + 1000) :
        r * r <= h * 1000000 /\ (r + 1) * (r + 1) > h * 1000000

\* the assumed volatility 0.15, in hundredths
VolatilityPercent == 15

\* a spread that shrinks with the horizon: volatility / Math.sqrt(months_ahead)
spreadOf_shrinking(monthsAhead) ==
    Fin(VolatilityPercent * 1000, 100 * SqrtMilli(monthsAhead))

\* volatility * Math.sqrt(months_ahead); Math.sqrt of a negative number is NaN
spreadOf(monthsAhead) ==
    IF monthsAhead < 0 THEN NaN
    ELSE Fin(VolatilityPercent * SqrtMilli(monthsAhead), 100000)

\* one element of confidenceIntervals
confidenceIntervalOf(f) ==
    LET revenue == parseFloat(f.projected_monthly_revenue)
    IN [months_ahead |-> f.months_ahead,
        revenue_low  |-> toFixed(NMul(revenue, NSub(Num(1), spreadOf(f.months_ahead))), 2),
        revenue_high |-> toFixed(NMul(revenue, NAdd(Num(1), spreadOf(f.months_ahead))), 2)]

\* the result object of shopify_forecast
forecastResultOf(t, p, orders) ==
    LET monthlyData == monthlyDataOf(orders)
        avgOrders   == avgMonthlyOrdersOf(monthlyData)
        avgRevenue  == avgMonthlyRevenueOf(monthlyData)
        momGrowth   == momGrowthOf(monthlyData)
        rate        == baseGrowthRateOf(momGrowth, p.growth_scenario)
        forecasts   == [i \in 1..Len(p.forecast_months) |->
                           forecastOf(t, p.forecast_months[i], avgOrders, avgRevenue,
                                      rate, p.include_seasonality)]
    IN [baseline |-> [avg_monthly_orders  |-> MathRound(avgOrders),
                      avg_monthly_revenue |-> toFixed(avgRevenue, 2),
                      observed_mom_growth |-> toFixed(NMul(momGrowth, Num(100)), 1) \o "%",
                      applied_growth_rate |-> toFixed(NMul(rate, Num(100)), 1) \o "%"],
        scenario             |-> p.growth_scenario,
        seasonality_applied  |-> p.include_seasonality,
        forecasts            |-> forecasts,
        confidence_intervals |-> [i \in 1..Len(forecasts) |-> confidenceIntervalOf(forecasts[i])]]

\* the start of the 90 days of history the forecast reads
HistoryDays == 90

historyQueryOf(t) == QueryFrom(DateOf(MinusDays(t, HistoryDays)))

(***************************************************************************)
(* shopify_conversion_analysis                                             *)
(***************************************************************************)
\* orders.filter(o => o.customer?.ordersCount === 1).length
funnelNewCustomerOrdersOf(orders) ==
    Cardinality({i \in 1..Len(orders) :
                    /\ ~orders[i].customer.isNull
                    /\ orders[i].customer.ordersCount = 1})

\* the share of visitors assumed to reach checkout, 0.03, and of carts, 0.45
CheckoutShare == Fin(3, 100)
CartShare == Fin(45, 100)

\* the rate as a fraction of one, not as a percentage
rateOf_perOne(part, total) ==
    IF total > 0 THEN NDiv(Num(part), Num(total)) ELSE Num(0)

\* total > 0 ? (part / total * 100) : 0
rateOf(part, total) ==
    IF total > 0 THEN NMul(NDiv(Num(part), Num(total)), Num(100)) ELSE Num(0)

\* count > 0 ? revenue / count : 0
averageOf(revenue, count) == IF count > 0 THEN NDiv(revenue, Num(count)) ELSE Num(0)

\* the analysis object of shopify_conversion_analysis
conversionAnalysisOf(p, orders, abandonedCheckouts) ==
    LET completedOrders   == Len(orders)
        abandonedCarts    == Len(abandonedCheckouts)
        totalCheckouts    == completedOrders + abandonedCarts
        completedRevenue  == SumAmounts(orders)
        abandonedRevenue  == SumAmounts(abandonedCheckouts)
        returningOrders   == returningCustomersOf(orders)
        estimatedVisitors == MathRound(NDiv(Num(totalCheckouts), CheckoutShare))
    IN [period_days |-> p.period_days,
        funnel |-> [estimated_visitors    |-> estimatedVisitors,
                    estimated_add_to_cart |-> MathRound(NDiv(Num(totalCheckouts), CartShare)),
                    reached_checkout      |-> totalCheckouts,
                    completed_purchase    |-> completedOrders],
        conversion_rates |->
            [checkout_completion |-> toFixed(rateOf(completedOrders, totalCheckouts), 1) \o "%",
             overall |-> toFixed(NMul(NDiv(Num(completedOrders), estimatedVisitors),
                                      Num(100)), 2) \o "%"],
        abandonment |->
            [abandoned_checkouts  |-> abandonedCarts,
             abandonment_rate     |-> toFixed(rateOf(abandonedCarts, totalCheckouts), 1) \o "%",
             abandoned_revenue    |-> toFixed(abandonedRevenue, 2),
             avg_abandoned_value  |-> toFixed(averageOf(abandonedRevenue, abandonedCarts), 2),
             recovery_opportunity |-> toFixed(abandonedRevenue, 2)],
        order_analysis |->
            [completed_orders          |-> completedOrders,
             completed_revenue         |-> toFixed(completedRevenue, 2),
             avg_order_value           |-> toFixed(averageOf(completedRevenue, completedOrders), 2),
             new_customer_orders       |-> funnelNewCustomerOrdersOf(orders),
             returning_customer_orders |-> returningOrders,
             returning_customer_rate   |->
                 IF completedOrders > 0
                 THEN toFixed(NMul(NDiv(Num(returningOrders), Num(completedOrders)),
                                   Num(100)), 1) \o "%"
                 ELSE "0%"]]

\* const { ..., response_format = "markdown" } = params
responseFormatOf(p) ==
    IF "response_format" \in DOMAIN p THEN p.response_format ELSE "markdown"

HighAbandonmentPercent == 70
LowRetentionPercent == 20

\* parseFloat(analysis.abandonment.abandonment_rate) > 70
abandonmentIsHigh(analysis) ==
    NGt(parseFloat(analysis.abandonment.abandonment_rate), Num(HighAbandonmentPercent))

\* the lines the Recommendations section of the markdown report adds to md
recommendationsOf(orders, abandonedCheckouts, analysis) ==
    LET avgCompletedValue == averageOf(SumAmounts(orders), Len(orders))
        avgAbandonedValue == averageOf(SumAmounts(abandonedCheckouts),
                                       Len(abandonedCheckouts))
    IN (IF abandonmentIsHigh(analysis)
        THEN <<"High abandonment rate">> ELSE <<>>)
       \o (IF NGt(avgAbandonedValue, avgCompletedValue)
           THEN <<"High-value carts being abandoned">> ELSE <<>>)
       \o (IF NLt(parseFloat(analysis.order_analysis.returning_customer_rate),
                  Num(LowRetentionPercent))
           THEN <<"Low returning customer rate">> ELSE <<>>)

(***************************************************************************)
(* shopify_product_performance                                             *)
(***************************************************************************)
\* item.variant?.product?.id || item.title
productIdOf(item) == IF item.productId # "" THEN item.productId ELSE item.title

\* item.variant?.product?.title || item.title
productTitleOf(item) == IF item.productTitle # "" THEN item.productTitle ELSE item.title

\* item.variant?.product?.totalInventory || 0 (a missing inventory is 0 in
\* the line item of the model, as it is after `|| 0`)
inventoryOf(item) == item.totalInventory

\* the position of the entry of product id in stats, 0 when it has none
PositionOf(stats, id) ==
    IF \E i \in 1..Len(stats) : stats[i].id = id
    THEN CHOOSE i \in 1..Len(stats) : stats[i].id = id
    ELSE 0

\* the body of the inner loop: productStats after one line item (the entries
\* are kept in the order the keys were inserted, as Object.entries gives them)
addItem(stats, item) ==
    LET id      == productIdOf(item)
        started == IF PositionOf(stats, id) # 0 THEN stats
                   ELSE Append(stats, [id          |-> id,
                                       title       |-> productTitleOf(item),
                                       units_sold  |-> 0,
                                       revenue     |-> Num(0),
                                       order_count |-> 0,
                                       inventory   |-> inventoryOf(item)])
        at      == PositionOf(started, id)
    IN [started EXCEPT ![at] =
           [@ EXCEPT !.units_sold  = @ + item.quantity,
                     !.revenue     = NAdd(@, AmountOf(item.amount)),
                     !.order_count = @ + 1]]

RECURSIVE addItems(_, _)
addItems(stats, items) ==
    IF Len(items) = 0 THEN stats
    ELSE addItems(addItem(stats, Head(items)), Tail(items))

\* the two nested loops over orders and their line items
RECURSIVE productStatsOf(_, _)
productStatsOf(stats, orders) ==
    IF Len(orders) = 0 THEN stats
    ELSE productStatsOf(addItems(stats, Head(orders).lineItems), Tail(orders))

\* a velocity that divides by the inventory whatever it is
velocityOf_unguarded(stats) == NDiv(Num(stats.units_sold), Num(stats.inventory))

\* stats.inventory > 0 ? stats.units_sold / stats.inventory : stats.units_sold
velocityOf(stats) ==
    IF stats.inventory > 0
    THEN NDiv(Num(stats.units_sold), Num(stats.inventory))
    ELSE Num(stats.units_sold)

\* String.prototype.replace with a string pattern: the first occurrence of
\* pattern in s replaced, s itself when there is none
ReplaceFirst(s, pattern, replacement) ==
    LET starts == {i \in 1..(Len(s) - Len(pattern) + 1) :
                      SubSeq(s, i, i + Len(pattern) - 1) = pattern}
    IN IF starts = {} THEN s
       ELSE LET at == CHOOSE i \in starts : \A j \in starts : i <= j
            IN SubSeq(s, 1, at - 1) \o replacement
                   \o SubSeq(s, at + Len(pattern), Len(s))

\* one element of products
productOf(stats) ==
    [id                 |-> ReplaceFirst(stats.id, "gid://shopify/Product/", ""),
     title              |-> stats.title,
     units_sold         |-> stats.units_sold,
     revenue            |-> stats.revenue,
     order_count        |-> stats.order_count,
     inventory          |-> stats.inventory,
     avg_order_quantity |-> NDiv(Num(stats.units_sold), Num(stats.order_count)),
     revenue_per_unit   |-> NDiv(stats.revenue, Num(stats.units_sold)),
     velocity           |-> velocityOf(stats)]

RestockMaxInventory == 10
PromotionMinInventory == 50
OpportunityListSize == 5

\* p.inventory > 0 && p.inventory < 10 && p.velocity > 0.5
isRestockSoon(prod) ==
    /\ prod.inventory > 0
    /\ prod.inventory < RestockMaxInventory
    /\ NGt(prod.velocity, Fin(1, 2))

\* p.inventory > 50 && p.velocity < 0.1
isConsiderPromotion(prod) ==
    /\ prod.inventory > PromotionMinInventory
    /\ NLt(prod.velocity, Fin(1, 10))

RECURSIVE SumRevenue(_)
SumRevenue(products) ==
    IF Len(products) = 0 THEN Num(0)
    ELSE NAdd(SumRevenue(SubSeq(products, 1, Len(products) - 1)),
              products[Len(products)].revenue)

RECURSIVE SumUnits(_)
SumUnits(products) ==
    IF Len(products) = 0 THEN 0
    ELSE SumUnits(SubSeq(products, 1, Len(products) - 1)) + products[Len(products)].units_sold

\* the number two products are compared by
SortKey(x, key) == IF key = "units_sold" THEN Num(x.units_sold) ELSE x[key]

\* x placed in the list sorted by descending key, after its equals (the sort
\* is stable)
RECURSIVE InsertDesc(_, _, _)
InsertDesc(sorted, x, key) ==
    IF Len(sorted) = 0 THEN <<x>>
    ELSE IF NGt(SortKey(x, key), SortKey(Head(sorted), key)) THEN <<x>> \o sorted
    ELSE <<Head(sorted)>> \o InsertDesc(Tail(sorted), x, key)

\* [...products].sort((a, b) => b[key] - a[key])
RECURSIVE SortDesc(_, _)
SortDesc(products, key) ==
    IF Len(products) = 0 THEN <<>>
    ELSE InsertDesc(SortDesc(SubSeq(products, 1, Len(products) - 1), key),
                    products[Len(products)], key)

\* the analysis object of shopify_product_performance
productAnalysisOf(p, orders) ==
    LET stats    == productStatsOf(<<>>, orders)
        products == [i \in 1..Len(stats) |-> productOf(stats[i])]
    IN [period_days |-> p.period_days,
        summary |-> [total_products_sold |-> Len(products),
                     total_units_sold    |-> SumUnits(products),
                     total_revenue       |-> toFixed(SumRevenue(products), 2)],
        top_by_revenue |-> FirstN(SortDesc(products, "revenue"), p.top_n),
        top_by_units   |-> FirstN(SortDesc(products, "units_sold"), p.top_n),
        fastest_moving |-> FirstN(SortDesc(products, "velocity"), p.top_n),
        opportunities |->
            [restock_soon       |-> FirstN(SelectSeq(products, isRestockSoon),
                                           OpportunityListSize),
             consider_promotion |-> FirstN(SelectSeq(products, isConsiderPromotion),
                                           OpportunityListSize)]]

(***************************************************************************)
(* shopify_segment_analysis                                                *)
(***************************************************************************)
\* daysSinceLastOrder of a customer without a last order: null
NoDays == -1000000

\* Math.floor((now - date) / (24 * 60 * 60 * 1000))
daysSince(t, date) == (t - date) \div HoursPerDay

\* customer.lastOrder?.createdAt ? <days since it> : null
daysSinceLastOrderOf(t, customer) ==
    IF customer.lastOrderAt = NoDate THEN NoDays ELSE daysSince(t, customer.lastOrderAt)

recencyScoreOf(days) ==
    IF days = NoDays THEN 1
    ELSE IF days < 30 THEN 5 ELSE IF days < 60 THEN 4
    ELSE IF days < 90 THEN 3 ELSE IF days < 180 THEN 2 ELSE 1

frequencyScoreOf(orderCount) ==
    IF orderCount >= 10 THEN 5 ELSE IF orderCount >= 5 THEN 4
    ELSE IF orderCount >= 3 THEN 3 ELSE IF orderCount >= 2 THEN 2 ELSE 1

monetaryScoreOf(totalSpent) ==
    IF NGe(totalSpent, Num(1000)) THEN 5 ELSE IF NGe(totalSpent, Num(500)) THEN 4
    ELSE IF NGe(totalSpent, Num(200)) THEN 3 ELSE IF NGe(totalSpent, Num(50)) THEN 2
    ELSE 1

\* rfmScore >= 12 ? "champions" : ... : rfmScore >= 3 ? "at_risk" : "hibernating"
rfmSegmentOf(rfmScore) ==
    IF rfmScore >= 12 THEN "champions" ELSE IF rfmScore >= 9 THEN "loyal"
    ELSE IF rfmScore >= 6 THEN "potential" ELSE IF rfmScore >= 3 THEN "at_risk"
    ELSE "hibernating"

\* the switch on segment_type, for one customer
segmentOf(segment_type, t, customer) ==
    LET totalSpent == AmountOf(customer.totalSpent)
        orderCount == customer.ordersCount
        days       == daysSinceLastOrderOf(t, customer)
    IN IF segment_type = "rfm"
       THEN rfmSegmentOf(recencyScoreOf(days) + frequencyScoreOf(orderCount)
                            + monetaryScoreOf(totalSpent))
       ELSE IF segment_type = "lifecycle"
       THEN IF orderCount = 0 THEN "prospect"
            ELSE IF orderCount = 1 /\ daysSince(t, customer.createdAt) < 30 THEN "new"
            ELSE IF days # NoDays /\ days < 60 THEN "active"
            ELSE IF days # NoDays /\ days < 180 THEN "at_risk"
            ELSE "lapsed"
       ELSE IF segment_type = "value_tiers"
       THEN IF NGe(totalSpent, Num(500)) /\ orderCount >= 3 THEN "high_value"
            ELSE IF NGe(totalSpent, Num(100)) \/ orderCount >= 2 THEN "medium_value"
            ELSE "low_value"
       ELSE IF customer.marketingState = "SUBSCRIBED"
            THEN IF days # NoDays /\ days < 30 THEN "engaged_active"
                 ELSE IF days # NoDays /\ days < 90 THEN "engaged_dormant"
                 ELSE "subscribed_inactive"
            ELSE "not_subscribed"

\* the value of `segment` at the end of each pass of the loop over customers
assignedSegmentsOf(segment_type, t, customers) ==
    [i \in 1..Len(customers) |-> segmentOf(segment_type, t, customers[i])]

\* the JSON object of shopify_segment_analysis: for every segment that was
\* given a customer, its count and the average of total_spent (the insight,
\* a fixed text per segment name, is left out)
segmentAnalysisOf(segment_type, t, customers) ==
    LET assigned == assignedSegmentsOf(segment_type, t, customers)
        names    == {assigned[i] : i \in 1..Len(customers)}
        members(name) == SelectSeq([i \in 1..Len(customers) |->
                                       [customers[i] EXCEPT !.id = assigned[i]]],
                                   LAMBDA c : c.id = name)
    IN [segment_type    |-> segment_type,
        total_customers |-> Len(customers),
        segments        |->
            [name \in names |->
                [count     |-> Len(members(name)),
                 avg_spent |-> NDiv(SumAmounts([i \in 1..Len(members(name)) |->
                                        [amount |-> members(name)[i].totalSpent]]),
                                    Num(Len(members(name))))]]]

(***************************************************************************)
(* The tool handlers as actions.  A handler is called when the server is   *)
(* idle; it reads the clock, sends its fetches and builds its result;      *)
(* getConfig (called by the first executeGraphQL) throws when              *)
(* SHOPIFY_SHOP_DOMAIN is unset, and the handlers catch nothing.  The      *)
(* server then hands the result, or the error, to the client and is idle   *)
(* again: nothing of a call is kept.  result is the analysis object of the *)
(* call, which the response prints as JSON or renders as markdown;         *)
(* locals.md holds what the markdown rendering adds to md beyond the       *)
(* values of that object.  The store may be failing: its outage names the  *)
(* request of a call (the first, the second, ...) that ends in an error,   *)
(* and executeGraphQL throws that error on.                                *)
(***************************************************************************)
ConfigError == [error |-> "SHOPIFY_SHOP_DOMAIN environment variable is required"]

NoFetch == [orders |-> <<>>, previousOrders |-> <<>>, newCustomers |-> <<>>,
            abandonedCheckouts |-> <<>>, customers |-> <<>>, products |-> <<>>]
NoSent == [current |-> NoQuery, previous |-> NoQuery, customers |-> NoQuery,
           requests |-> 0, calls |-> <<>>, mutations |-> <<>>]
NoLocals == [source |-> <<>>, md |-> <<>>, segment |-> <<>>]

\* the call ended in an error
IsError == "error" \in DOMAIN result

\* the k-th await of a handler is reached when no earlier request threw
IsSent(k) == store.outage.at = 0 \/ k <= store.outage.at

\* the query of the k-th request, when it is made
Sent(k, q) == IF IsSent(k) THEN q ELSE NoQuery

\* what the k-th request hands the handler: response.data.data, or nothing
\* when it, or an earlier request, threw
Returned(k, data) == IF store.outage.at = 0 \/ k < store.outage.at THEN data ELSE <<>>

\* whether one of the n requests of a handler throws
Thrown(n) == store.outage.at \in 1..n

\* the number of client.post calls of a handler with n requests
RequestsMade(n) == IF Thrown(n) THEN store.outage.at ELSE n

\* a handler that swallowed the error and reported on what it had
ResultOrError_partial(n, report) == report

\* the handler's outcome: the error thrown on by executeGraphQL (catch:
\* throw error), which no handler catches, or else the report
ResultOrError(n, report) ==
    IF Thrown(n) THEN [error |-> store.outage.error] ELSE report

\* executeGraphQL before any request is made: getClient() -> getConfig()
Rejected(name, p) ==
    /\ tool = "none"
    /\ env_domain = ""
    /\ tool' = name
    /\ params' = p
    /\ sent' = NoSent
    /\ fetched' = NoFetch
    /\ locals' = NoLocals
    /\ result' = ConfigError
    /\ UNCHANGED <<env_domain, store, now>>

\* the value of `source` at the end of each pass of the trafficSources loop
assignedSourcesOf(orders, shopDomain) ==
    [i \in 1..Len(orders) |-> SourceOf(ReferrerOf(orders[i]), shopDomain)]

\* what reading comparison.orders_change throws when comparison is null
NullComparisonError ==
    [error |-> "TypeError: Cannot read properties of null (reading 'orders_change')"]

\* the end of the store analytics handler: the json branch returns the
\* analytics object; the markdown branch tests
\* comparison?.orders_change !== "N/A", which holds for a null comparison
\* (undefined !== "N/A"), and then reads comparison.orders_change
analyticsResponseOf(p, analytics) ==
    IF responseFormatOf(p) = "markdown" /\ analytics.comparison.isNull
    THEN NullComparisonError
    ELSE analytics

StoreAnalyticsRun(p) ==
    LET currentQuery  == currentQueryOf(now, p.period_days)
        previousQuery == IF p.compare_previous
                         THEN previousQueryOf(now, p.period_days) ELSE NoQuery
        last          == IF p.compare_previous THEN 3 ELSE 2
        orders        == Returned(1, Fetch(store.orders, currentQuery))
        prevOrders    == IF p.compare_previous
                         THEN Returned(2, Fetch(store.orders, previousQuery)) ELSE <<>>
        newCustomers  == Returned(last, Fetch(store.customers, currentQuery))
    IN /\ tool = "none"
       /\ env_domain # ""
       /\ tool' = "shopify_store_analytics"
       /\ params' = p
       /\ sent' = [current   |-> Sent(1, currentQuery),
                   previous  |-> IF p.compare_previous
                                 THEN Sent(2, previousQuery) ELSE NoQuery,
                   customers |-> Sent(last, currentQuery),
                   requests  |-> RequestsMade(last)]
       /\ fetched' = [NoFetch EXCEPT !.orders = orders,
                                     !.previousOrders = prevOrders,
                                     !.newCustomers = newCustomers]
       /\ locals' = IF Thrown(last) THEN NoLocals
                    ELSE [NoLocals EXCEPT
                             !.source = assignedSourcesOf(orders, env_domain)]
       /\ result' = ResultOrError(last,
                        analyticsResponseOf(p,
                            analyticsOf(now, p, orders, prevOrders, newCustomers,
                                        env_domain)))
       /\ UNCHANGED <<env_domain, store, now>>

\* shopify_store_analytics, its parameters drawn from P
StoreAnalytics(P) ==
    \E p \in P : StoreAnalyticsRun(p) \/ Rejected("shopify_store_analytics", p)

ForecastRun(p) ==
    LET query  == historyQueryOf(now)
        orders == Returned(1, Fetch(store.orders, query))
    IN /\ tool = "none"
       /\ env_domain # ""
       /\ tool' = "shopify_forecast"
       /\ params' = p
       /\ sent' = [NoSent EXCEPT !.current = Sent(1, query), !.requests = RequestsMade(1)]
       /\ fetched' = [NoFetch EXCEPT !.orders = orders]
       /\ locals' = NoLocals
       /\ result' = ResultOrError(1, forecastResultOf(now, p, orders))
       /\ UNCHANGED <<env_domain, store, now>>

\* shopify_forecast, its parameters drawn from P
Forecast(P) ==
    \E p \in P : ForecastRun(p) \/ Rejected("shopify_forecast", p)

ConversionAnalysisRun(p) ==
    LET query     == currentQueryOf(now, p.period_days)
        orders    == Returned(1, Fetch(store.orders, query))
        abandoned == Returned(2, Fetch(store.checkouts, query))
    IN /\ tool = "none"
       /\ env_domain # ""
       /\ tool' = "shopify_conversion_analysis"
       /\ params' = p
       /\ sent' = [NoSent EXCEPT !.current = Sent(1, query), !.requests = RequestsMade(2)]
       /\ fetched' = [NoFetch EXCEPT !.orders = orders, !.abandonedCheckouts = abandoned]
       /\ locals' = IF Thrown(2) \/ responseFormatOf(p) = "json" THEN NoLocals
                    ELSE [NoLocals EXCEPT
                             !.md = recommendationsOf(orders, abandoned,
                                        conversionAnalysisOf(p, orders, abandoned))]
       /\ result' = ResultOrError(2, conversionAnalysisOf(p, orders, abandoned))
       /\ UNCHANGED <<env_domain, store, now>>

\* shopify_conversion_analysis, its parameters drawn from P
ConversionAnalysis(P) ==
    \E p \in P : ConversionAnalysisRun(p) \/ Rejected("shopify_conversion_analysis", p)

ProductPerformanceRun(p) ==
    LET query  == currentQueryOf(now, p.period_days)
        orders == Returned(1, Fetch(store.orders, query))
    IN /\ tool = "none"
       /\ env_domain # ""
       /\ tool' = "shopify_product_performance"
       /\ params' = p
       /\ sent' = [NoSent EXCEPT !.current = Sent(1, query), !.requests = RequestsMade(1)]
       /\ fetched' = [NoFetch EXCEPT !.orders = orders]
       /\ locals' = NoLocals
       /\ result' = ResultOrError(1, productAnalysisOf(p, orders))
       /\ UNCHANGED <<env_domain, store, now>>

\* shopify_product_performance, its parameters drawn from P
ProductPerformance(P) ==
    \E p \in P : ProductPerformanceRun(p) \/ Rejected("shopify_product_performance", p)

SegmentAnalysisRun(p) ==
    LET customers == Returned(1, FirstN(store.customers, PageSize))
    IN /\ tool = "none"
       /\ env_domain # ""
       /\ tool' = "shopify_segment_analysis"
       /\ params' = p
       /\ sent' = [NoSent EXCEPT !.requests = RequestsMade(1)]
       /\ fetched' = [NoFetch EXCEPT !.customers = customers]
       /\ locals' = IF Thrown(1) THEN NoLocals
                    ELSE [NoLocals EXCEPT
                             !.segment = assignedSegmentsOf(p.segment_type, now, customers)]
       /\ result' = ResultOrError(1, segmentAnalysisOf(p.segment_type, now, customers))
       /\ UNCHANGED <<env_domain, store, now>>

\* shopify_segment_analysis, its parameters drawn from P
SegmentAnalysis(P) ==
    \E p \in P : SegmentAnalysisRun(p) \/ Rejected("shopify_segment_analysis", p)

\* the state before any tool is called
Idle ==
    /\ tool = "none"
    /\ params = <<>>
    /\ sent = NoSent
    /\ fetched = NoFetch
    /\ locals = NoLocals
    /\ result = <<>>

\* the handler's result (or its error) goes to the client; the call is over
Respond ==
    /\ tool # "none"
    /\ tool' = "none"
    /\ params' = <<>>
    /\ sent' = NoSent
    /\ fetched' = NoFetch
    /\ locals' = NoLocals
    /\ result' = <<>>
    /\ UNCHANGED <<env_domain, store, now>>

(***************************************************************************)
(* Stores and parameters the specifications draw from                      *)
(***************************************************************************)
\* the lists of at most n elements of S
RECURSIVE ListsUpTo(_, _)
ListsUpTo(S, n) ==
    IF n = 0 THEN {<<>>}
    ELSE LET shorter == ListsUpTo(S, n - 1)
         IN shorter \cup {Append(l, x) : l \in {m \in shorter : Len(m) = n - 1}, x \in S}

\* the records of a list, each with its position as id
WithIds(list) == [i \in 1..Len(list) |-> [list[i] EXCEPT !.id = i]]

ShopDomain == "shop.myshopify.com"

\* 2 November of the year after the base year, at noon
NoonNow == ((DaysPerYear + 305) * HoursPerDay) + 12

NoCustomer == [isNull |-> TRUE, id |-> "", ordersCount |-> 0]
Customer(id, n) == [isNull |-> FALSE, id |-> id, ordersCount |-> n]

LineItem(title, quantity, productId, inventory, amount) ==
    [title |-> title, quantity |-> quantity, productId |-> productId,
     productTitle |-> title, totalInventory |-> inventory, amount |-> amount]

Order(createdAt, amount, customer, referrerUrl, landingPageUrl) ==
    [id |-> 0, createdAt |-> createdAt, amount |-> amount,
     lineItems |-> <<LineItem("Widget", 2, "gid://shopify/Product/1", 5, amount)>>,
     customer |-> customer, referrerUrl |-> referrerUrl, landingPageUrl |-> landingPageUrl]

Checkout(createdAt, amount) == [id |-> 0, createdAt |-> createdAt, amount |-> amount]

\* a store that answers every request
NoOutage == [at |-> 0, error |-> ""]

StoreOf(orders, checkouts, customers) ==
    [orders |-> WithIds(orders), checkouts |-> WithIds(checkouts),
     customers |-> WithIds(customers), outage |-> NoOutage]

(***************************************************************************)
(* SpecTraffic: shopify_store_analytics over orders that differ in their   *)
(* referrer and landing page                                               *)
(***************************************************************************)
MaxTrafficOrders == 2

ReferrerUrls ==
    { "https://www.google.com/",
      "https://WWW.GOOGLE.COM/",
      "https://blog.example.com/google-tips",
      "https://m.facebook.com/ad",
      "https://l.instagram.com/",
      "https://t.co/abc",
      "https://T.CO/abc",
      "https://mobile.twitter.com/u",
      "t.co/abc",
      "https://dropbox.com/s",
      "https://blog.example.com/?u=https://t.co/x",
      "https://www.tiktok.com/",
      "https://mail.example.com/?utm_medium=email",
      "https://www.pinterest.com/pin/1",
      "https://randomblog.example.com",
      "https://shop.myshopify.com/products/1",
      "https://SHOP.myshopify.com/products/1",
      "https://blog.example.com/?ref=shop.myshopify.com" }

LandingPageUrls ==
    { "https://shop.myshopify.com/",
      "https://shop.myshopify.com/?utm_source=facebook" }

TrafficOrders ==
    {Order(NoonNow - HoursPerDay, "10.00", NoCustomer, r, "") : r \in ReferrerUrls \cup {""}}
    \cup {Order(NoonNow - HoursPerDay, "10.00", NoCustomer, "", l) : l \in LandingPageUrls}
    \cup {Order(NoonNow - HoursPerDay, "10.00", NoCustomer,
                "https://randomblog.example.com",
                "https://shop.myshopify.com/?utm_source=facebook")}

TrafficParams ==
    {[period_days |-> 30, compare_previous |-> FALSE, response_format |-> "json"]}

InitTraffic ==
    /\ env_domain \in {"", ShopDomain}
    /\ now = NoonNow
    /\ store \in {StoreOf(os, <<>>, <<>>) : os \in ListsUpTo(TrafficOrders, MaxTrafficOrders)}
    /\ Idle

NextTraffic == StoreAnalytics(TrafficParams) \/ Respond

SpecTraffic == InitTraffic /\ [][NextTraffic]_vars

\* the store analytics handler has run to its end
AnalyticsDone == tool = "shopify_store_analytics" /\ ~IsError

\* the referrer the loop read for the i-th fetched order
ReferrerAt(i) == ReferrerOf(fetched.orders[i])

TrafficSourceSet ==
    {"direct", "google", "facebook", "instagram", "twitter", "tiktok", "email",
     "pinterest", "referral"}

PlatformSet == TrafficSourceSet \ {"direct", "referral"}

\* the domains the traffic attribution names for each platform
PlatformDomains ==
    [google    |-> {"google.com"},
     facebook  |-> {"facebook.com", "fb.com", "fb.me"},
     instagram |-> {"instagram.com"},
     twitter   |-> {"twitter.com", "t.co", "x.com"},
     tiktok    |-> {"tiktok.com"},
     email     |-> {"klaviyo.com", "mailchimp.com"},
     pinterest |-> {"pinterest.com"}]

\* host is domain d or a subdomain of it
HostIn(host, d) == host = d \/ EndsWith(host, "." \o d)

HostOfPlatform(host, platform) == \E d \in PlatformDomains[platform] : HostIn(host, d)

\* C2: a referrer that parses as a URL is given a platform only when
\* its hostname is, or is a subdomain of, a domain of that platform
C2_HostnameDecidesEveryPlatform ==
    AnalyticsDone =>
        \A i \in 1..Len(fetched.orders) :
            (ParseURL(ReferrerAt(i)).ok /\ locals.source[i] \in PlatformSet)
                => HostOfPlatform(ParseURL(ReferrerAt(i)).hostname, locals.source[i])

\* C2 witness: a parsed referrer with a twitter domain only in its query string
\* was not given twitter, and one with "google" only in its path was given
\* google
C2_Witness ==
    /\ AnalyticsDone
    /\ Len(fetched.orders) = 2
    /\ ReferrerAt(1) = "https://blog.example.com/?u=https://t.co/x"
    /\ locals.source[1] = "referral"
    /\ ReferrerAt(2) = "https://blog.example.com/google-tips"
    /\ locals.source[2] = "google"

\* C3: two orders whose referrers differ only in letter case get the same source
C3_CaseInsensitive ==
    AnalyticsDone =>
        \A i, j \in 1..Len(fetched.orders) :
            toLowerCase(ReferrerAt(i)) = toLowerCase(ReferrerAt(j))
                => locals.source[i] = locals.source[j]

\* the referrer is a URL whose host is the store's domain or a subdomain of it
PointsAtStore(referrer, shopDomain) ==
    /\ ParseURL(referrer).ok
    /\ HostIn(ParseURL(referrer).hostname, toLowerCase(shopDomain))

\* C4: an order that matches no platform is referral exactly when its referrer
\* is non-empty and does not point at the store's own domain, direct otherwise
C4_ReferralIffForeign ==
    AnalyticsDone =>
        \A i \in 1..Len(fetched.orders) :
            locals.source[i] \notin PlatformSet =>
                /\ locals.source[i] \in {"referral", "direct"}
                /\ locals.source[i] = "referral"
                      <=> (ReferrerAt(i) # "" /\ ~PointsAtStore(ReferrerAt(i), env_domain))

\* the number of fetched orders the loop gave source s
OrdersWithSource(s) == Cardinality({i \in 1..Len(fetched.orders) : locals.source[i] = s})

RECURSIVE SumCounts(_, _)
SumCounts(counts, keys) ==
    IF keys = {} THEN 0
    ELSE LET k == CHOOSE x \in keys : TRUE
         IN counts[k] + SumCounts(counts, keys \ {k})

\* C5: every fetched order is given one source of the closed set, the counts
\* by source hold exactly the orders given each source, they sum to the number
\* of orders, and no other key appears
C5_OneSourcePerOrder ==
    AnalyticsDone =>
        LET sources == result.traffic.sources
        IN /\ Len(locals.source) = Len(fetched.orders)
           /\ \A i \in 1..Len(fetched.orders) : locals.source[i] \in TrafficSourceSet
           /\ DOMAIN sources \subseteq TrafficSourceSet
           /\ \A s \in TrafficSourceSet :
                 IF OrdersWithSource(s) = 0 THEN s \notin DOMAIN sources
                 ELSE s \in DOMAIN sources /\ sources[s] = OrdersWithSource(s)
           /\ SumCounts(sources, DOMAIN sources) = result.orders.total
           /\ result.orders.total = Len(fetched.orders)

\* C5 witness: two orders of the same source, counted as two
C5_Witness ==
    /\ AnalyticsDone
    /\ Len(fetched.orders) = 2
    /\ DOMAIN result.traffic.sources = {"facebook"}
    /\ result.traffic.sources["facebook"] = 2

(***************************************************************************)
(* Spec: the four tools over stores whose orders differ in amount,         *)
(* customer and age                                                        *)
(***************************************************************************)
MaxOrders == 2

\* two days and ten days before the clock: inside a 7-day period, and inside
\* the period before it
RecentTime == NoonNow - 2 * HoursPerDay
EarlierTime == NoonNow - 10 * HoursPerDay

GeneralOrders ==
    {Order(t, a, Customer("c1", 1), "", "") :
        t \in {RecentTime, EarlierTime}, a \in {"", "100.00", "150.00", "abc"}}
    \cup {Order(t, "100.00", c, "", "") :
            t \in {RecentTime, EarlierTime}, c \in {NoCustomer, Customer("c2", 3)}}

\* the abandoned checkouts and the new customers of a store
GeneralExtras ==
    { [checkouts |-> <<>>, customers |-> <<>>],
      [checkouts |-> <<Checkout(RecentTime, "80.00")>>,
       customers |-> <<[id |-> 0, createdAt |-> RecentTime]>>],
      [checkouts |-> <<Checkout(RecentTime, "abc")>>, customers |-> <<>>] }

PeriodChoices == {7, 30}

StoreAnalyticsParams ==
    [period_days : PeriodChoices, compare_previous : BOOLEAN, response_format : {"json"}]

ConversionParams == [period_days : PeriodChoices]

ProductParams == [period_days : PeriodChoices, top_n : {10}]

GeneralForecastParams ==
    {[forecast_months |-> <<1, 2>>, growth_scenario |-> "moderate",
      include_seasonality |-> TRUE]}

Init ==
    /\ env_domain \in {"", ShopDomain}
    /\ now = NoonNow
    /\ store \in {StoreOf(os, x.checkouts, x.customers) :
                     os \in ListsUpTo(GeneralOrders, MaxOrders), x \in GeneralExtras}
    /\ Idle

Next ==
    \/ StoreAnalytics(StoreAnalyticsParams)
    \/ Forecast(GeneralForecastParams)
    \/ ConversionAnalysis(ConversionParams)
    \/ ProductPerformance(ProductParams)
    \/ Respond

Spec == Init /\ [][Next]_vars

ForecastDone == tool = "shopify_forecast" /\ ~IsError
ConversionDone == tool = "shopify_conversion_analysis" /\ ~IsError
ProductDone == tool = "shopify_product_performance" /\ ~IsError

\* the fetched orders that have a customer
OrdersWithCustomer == {i \in 1..Len(fetched.orders) : ~fetched.orders[i].customer.isNull}

\* C6: in the store analytics report an order without a customer is in neither
\* the new nor the returning count, nor in unique_customers, and still in the
\* order total: new + returning is the number of orders that have a customer
C6_NoCustomerInNeitherBucket ==
    AnalyticsDone =>
        /\ result.customers.new_customer_orders + result.customers.returning_customer_orders
              = Cardinality(OrdersWithCustomer)
        /\ result.customers.unique_customers
              = Cardinality({fetched.orders[i].customer.id : i \in OrdersWithCustomer})
        /\ result.orders.total = Len(fetched.orders)

\* a string that is a decimal number and nothing else
IsWellFormedAmount(a) ==
    /\ Len(a) > 0
    /\ \A i \in 1..Len(a) : IsDigit(CharAt(a, i)) \/ CharAt(a, i) = "."
    /\ Cardinality({i \in 1..Len(a) : CharAt(a, i) = "."}) <= 1
    /\ \E i \in 1..Len(a) : IsDigit(CharAt(a, i))

\* the sum of the well-formed amounts of a list of records
RECURSIVE WellFormedTotal(_)
WellFormedTotal(records) ==
    IF Len(records) = 0 THEN Num(0)
    ELSE NAdd(WellFormedTotal(Tail(records)),
              IF IsWellFormedAmount(Head(records).amount)
              THEN parseFloat(Head(records).amount) ELSE Num(0))

\* C7: in every revenue sum a missing or unparseable amount counts as 0: the
\* total is the sum of the well-formed amounts
C7_MalformedAmountIsZero ==
    /\ AnalyticsDone =>
          /\ result.revenue.total = toFixed(WellFormedTotal(fetched.orders), 2)
          /\ ~result.comparison.isNull =>
                result.comparison.prev_revenue = WellFormedTotal(fetched.previousOrders)
    /\ ConversionDone =>
          /\ result.order_analysis.completed_revenue
                = toFixed(WellFormedTotal(fetched.orders), 2)
          /\ result.abandonment.abandoned_revenue
                = toFixed(WellFormedTotal(fetched.abandonedCheckouts), 2)
    /\ ForecastDone =>
          (Len(fetched.orders) = 1 =>
              result.baseline.avg_monthly_revenue
                  = toFixed(WellFormedTotal(fetched.orders), 2))
    /\ ProductDone =>
          result.summary.total_revenue = toFixed(WellFormedTotal(fetched.orders), 2)

\* a count, a number, or a number rendered as text, that is zero
IsZero(x) == x = 0
IsZeroNum(x) == x = Num(0)
IsZeroText(x) == x \in {"0", "0.0", "0.00", "0%", "0.0%", "0.00%"}

NothingFetched ==
    /\ fetched.orders = <<>>
    /\ fetched.previousOrders = <<>>
    /\ fetched.abandonedCheckouts = <<>>

\* C8: when no order and no checkout is fetched, every number of the report is
\* zero (a period delta may be "N/A"): none is NaN or Infinity
C8_EmptyInputAllZero ==
    /\ (AnalyticsDone /\ NothingFetched) =>
          /\ IsZero(result.orders.total)
          /\ IsZeroText(result.orders.daily_average)
          /\ IsZero(result.orders.items_sold)
          /\ IsZeroText(result.revenue.total)
          /\ IsZeroText(result.revenue.daily_average)
          /\ IsZeroText(result.revenue.average_order_value)
          /\ IsZero(result.customers.unique_customers)
          /\ IsZero(result.customers.new_customer_orders)
          /\ IsZero(result.customers.returning_customer_orders)
          /\ IsZeroNum(result.traffic.estimated_sessions)
          /\ IsZeroNum(result.traffic.estimated_daily_sessions)
          /\ ~result.comparison.isNull =>
                /\ result.comparison.revenue_change \in {"N/A", "0.0"}
                /\ result.comparison.orders_change \in {"N/A", "0.0"}
    /\ (ForecastDone /\ NothingFetched) =>
          /\ IsZeroNum(result.baseline.avg_monthly_orders)
          /\ IsZeroText(result.baseline.avg_monthly_revenue)
          /\ \A i \in 1..Len(result.forecasts) :
                /\ IsZeroNum(result.forecasts[i].projected_monthly_orders)
                /\ IsZeroText(result.forecasts[i].projected_monthly_revenue)
                /\ IsZeroNum(result.forecasts[i].projected_monthly_sessions)
                /\ IsZeroText(result.forecasts[i].growth_from_current)
                /\ IsZeroText(result.confidence_intervals[i].revenue_low)
                /\ IsZeroText(result.confidence_intervals[i].revenue_high)
    /\ (ConversionDone /\ NothingFetched) =>
          /\ IsZeroNum(result.funnel.estimated_visitors)
          /\ IsZeroNum(result.funnel.estimated_add_to_cart)
          /\ IsZero(result.funnel.reached_checkout)
          /\ IsZero(result.funnel.completed_purchase)
          /\ IsZeroText(result.conversion_rates.checkout_completion)
          /\ IsZeroText(result.conversion_rates.overall)
          /\ IsZeroText(result.abandonment.abandonment_rate)
          /\ IsZeroText(result.abandonment.abandoned_revenue)
          /\ IsZeroText(result.abandonment.avg_abandoned_value)
          /\ IsZeroText(result.order_analysis.completed_revenue)
          /\ IsZeroText(result.order_analysis.avg_order_value)
          /\ IsZeroText(result.order_analysis.returning_customer_rate)
    /\ (ProductDone /\ NothingFetched) =>
          /\ IsZero(result.summary.total_products_sold)
          /\ IsZero(result.summary.total_units_sold)
          /\ IsZeroText(result.summary.total_revenue)

\* (current - previous) / previous * 100 with one decimal, "N/A" when previous is 0
ExpectedChange(current, previous) ==
    IF previous = Num(0) THEN "N/A"
    ELSE toFixed(NMul(NDiv(NSub(current, previous), previous), Num(100)), 1)

\* C9: revenue_change is "N/A" exactly when the previous period's revenue (the
\* sum of its well-formed amounts) is 0, and is otherwise the change in percent
\* with one decimal; orders_change likewise on the order counts
C9_ChangeOrNA ==
    (AnalyticsDone /\ ~result.comparison.isNull) =>
        /\ result.comparison.revenue_change
              = ExpectedChange(WellFormedTotal(fetched.orders),
                               WellFormedTotal(fetched.previousOrders))
        /\ result.comparison.orders_change
              = ExpectedChange(Num(Len(fetched.orders)), Num(Len(fetched.previousOrders)))

(***************************************************************************)
(* SpecWindow: shopify_store_analytics at several times of day, over       *)
(* several period lengths, with one order somewhere in the last weeks      *)
(***************************************************************************)
MaxWindowOrders == 1

WindowNows == {(DaysPerYear + 305) * HoursPerDay + h : h \in {0, 6, 23}}

WindowPeriods == {1, 2, 7}

\* the times an order of the store may have been created at: midnight and
\* noon of the sixteen days up to the clock's day
WindowOrderTimes ==
    {(DaysPerYear + 305 - d) * HoursPerDay + h : d \in 1..16, h \in {0, 12}}

WindowOrders == {Order(t, "100.00", Customer("c1", 1), "", "") : t \in WindowOrderTimes}

WindowParams ==
    [period_days : WindowPeriods, compare_previous : BOOLEAN, response_format : {"json"}]

InitWindow ==
    /\ env_domain \in {"", ShopDomain}
    /\ now \in WindowNows
    /\ store \in {StoreOf(os, <<>>, <<>>) : os \in ListsUpTo(WindowOrders, MaxWindowOrders)}
    /\ Idle

NextWindow == StoreAnalytics(WindowParams) \/ Respond

SpecWindow == InitWindow /\ [][NextWindow]_vars

\* the length in hours of the span of timestamps a query selects: up to its
\* upper date when it has one, up to the clock when it has none
SpanHours(q) == (IF q.lt = NoDate THEN now ELSE q.lt * HoursPerDay) - q.ge * HoursPerDay

ComparisonDone == AnalyticsDone /\ params.compare_previous

\* the previous query ends where the current one starts, and no order is
\* returned to both
WindowsAdjacentAndDisjoint ==
    ComparisonDone =>
        /\ sent.previous.lt = sent.current.ge
        /\ \A i \in 1..Len(fetched.orders), j \in 1..Len(fetched.previousOrders) :
              fetched.orders[i].id # fetched.previousOrders[j].id
        /\ \A t \in WindowOrderTimes : ~(Selects(sent.current, t) /\ Selects(sent.previous, t))

\* C10: the previous window is as long as the current one (period_days), ends
\* where the current one starts and does not overlap it, whatever the time of
\* the call
C10_EqualAdjacentWindows ==
    ComparisonDone =>
        /\ WindowsAdjacentAndDisjoint
        /\ SpanHours(sent.previous) = params.period_days * HoursPerDay
        /\ SpanHours(sent.current) = SpanHours(sent.previous)

(***************************************************************************)
(* SpecForecast: shopify_forecast at two dates, over orders of one or two  *)
(* calendar months                                                         *)
(***************************************************************************)
MaxForecastOrders == 2
MaxHorizon == 2

\* 2 November and 15 March, at noon
ForecastNows == {NoonNow, (DaysPerYear + 73) * HoursPerDay + 12}

ForecastParams ==
    [forecast_months     : {<<h>> : h \in 1..MaxHorizon} \cup {<<1, MaxHorizon>>},
     growth_scenario     : {"conservative", "moderate", "aggressive"},
     include_seasonality : BOOLEAN]

\* the orders a store may hold at clock t: 5 or 40 days old
ForecastOrders(t) ==
    {Order(t - d * HoursPerDay, a, Customer("c1", 1), "", "") :
        d \in {5, 40}, a \in {"0.00", "100.00", "150.00"}}

InitForecast ==
    /\ env_domain \in {"", ShopDomain}
    /\ now \in ForecastNows
    /\ store \in {StoreOf(os, <<>>, <<>>) :
                     os \in ListsUpTo(ForecastOrders(now), MaxForecastOrders)}
    /\ Idle

NextForecast == Forecast(ForecastParams) \/ Respond

SpecForecast == InitForecast /\ [][NextForecast]_vars

RECURSIVE NPow(_, _)
NPow(x, k) == IF k = 0 THEN Num(1) ELSE NMul(NPow(x, k - 1), x)

\* the baselines and the rate the forecast applies to its fetched orders
BaselineRevenue == avgMonthlyRevenueOf(monthlyDataOf(fetched.orders))
BaselineOrders == avgMonthlyOrdersOf(monthlyDataOf(fetched.orders))
AppliedRate ==
    baseGrowthRateOf(momGrowthOf(monthlyDataOf(fetched.orders)), params.growth_scenario)

\* baseline * (1 + rate)^h, times the seasonal factor of the month h months
\* ahead when seasonality is on
TargetMonthProjection(baseline, h) ==
    LET compound == NMul(baseline, NPow(NAdd(Num(1), AppliedRate), h))
    IN IF params.include_seasonality
       THEN NMul(compound, seasonalFactorOf(futureMonthOf(now, h)))
       ELSE compound

\* C1: the projected revenue and orders of every horizon h are
\* baseline * (1 + rate)^h, times the seasonal factor of the target month
\* alone when seasonality is on
C1_SeasonalFactorOnce ==
    ForecastDone =>
        \A i \in 1..Len(result.forecasts) :
            LET h == result.forecasts[i].months_ahead
            IN /\ result.forecasts[i].projected_monthly_revenue
                     = toFixed(TargetMonthProjection(BaselineRevenue, h), 2)
               /\ result.forecasts[i].projected_monthly_orders
                     = MathRound(TargetMonthProjection(BaselineOrders, h))

ScenarioRate(scenario) ==
    IF scenario = "conservative" THEN Fin(2, 100)
    ELSE IF scenario = "moderate" THEN Fin(5, 100)
    ELSE Fin(10, 100)

\* the revenue of the calendar month k in the fetched history
BucketRevenue(k) == monthlyDataOf(fetched.orders)[k].revenue

\* the growth rate by the rule: the growth from the month before the latest to
\* the latest when there are two months, the earlier one has revenue and the
\* growth is positive; the scenario constant otherwise
ExpectedRate ==
    LET months == DOMAIN monthlyDataOf(fetched.orders)
        last   == CHOOSE k \in months : \A y \in months : y <= k
        prev   == CHOOSE k \in months \ {last} : \A y \in months \ {last} : y <= k
        growth == NDiv(NSub(BucketRevenue(last), BucketRevenue(prev)), BucketRevenue(prev))
    IN IF /\ Cardinality(months) >= 2
          /\ BucketRevenue(prev) # Num(0)
          /\ NGt(growth, Num(0))
       THEN growth
       ELSE ScenarioRate(params.growth_scenario)

\* C14: the applied growth rate is the observed growth of the two latest month
\* buckets when there are two, the earlier has revenue and the growth is
\* positive, and the scenario constant (0.02, 0.05, 0.10) in every other case:
\* it is always strictly positive
C14_AppliedGrowthRate ==
    ForecastDone =>
        /\ AppliedRate = ExpectedRate
        /\ NGt(AppliedRate, Num(0))
        /\ result.baseline.applied_growth_rate
              = toFixed(NMul(ExpectedRate, Num(100)), 1) \o "%"

\* C14 witness: revenue 100.00 in the earlier month and 150.00 in the later
\* one, and a rate of 50% applied in the conservative scenario
C14_Witness ==
    /\ ForecastDone
    /\ Len(fetched.orders) = 2
    /\ Cardinality(DOMAIN monthlyDataOf(fetched.orders)) = 2
    /\ params.growth_scenario = "conservative"
    /\ result.baseline.observed_mom_growth = "50.0%"
    /\ result.baseline.applied_growth_rate = "50.0%"

(***************************************************************************)
(* SpecFunnel: shopify_conversion_analysis over stores that differ in the  *)
(* number of completed orders and of abandoned checkouts                   *)
(***************************************************************************)
MaxFunnelCount == 4

\* the list of n copies of x
Repeat(x, n) == [i \in 1..n |-> x]

\* (completed orders, abandoned checkouts) of the stores: every small pair,
\* three against seven (the shares of thirty against seventy) and one against
\* fifteen (rates that fall halfway between two tenths)
FunnelCounts ==
    ((0..MaxFunnelCount) \X (0..MaxFunnelCount)) \cup {<<3, 7>>, <<1, 15>>}

FunnelStore(completed, abandoned) ==
    StoreOf(Repeat(Order(RecentTime, "100.00", Customer("c1", 1), "", ""), completed),
            Repeat(Checkout(RecentTime, "80.00"), abandoned),
            <<>>)

InitFunnel ==
    /\ env_domain \in {"", ShopDomain}
    /\ now = NoonNow
    /\ store \in {FunnelStore(c[1], c[2]) : c \in FunnelCounts}
    /\ Idle

NextFunnel == ConversionAnalysis(ConversionParams) \/ Respond

SpecFunnel == InitFunnel /\ [][NextFunnel]_vars

\* part / reached * 100 as an exact fraction, 0 when nothing reached checkout
PercentOf(part, reached) == IF reached = 0 THEN Num(0) ELSE Fin(part * 100, reached)

\* C11: reached_checkout is completed + abandoned; the completion and the
\* abandonment rate are completed / reached * 100 and abandoned / reached * 100
\* (shown with one decimal), both 0 when nothing reached checkout, and they
\* sum to 100 otherwise
C11_FunnelRates ==
    ConversionDone =>
        LET completed == Len(fetched.orders)
            abandoned == Len(fetched.abandonedCheckouts)
            reached   == result.funnel.reached_checkout
        IN /\ reached = completed + abandoned
           /\ result.funnel.completed_purchase = completed
           /\ result.abandonment.abandoned_checkouts = abandoned
           /\ result.conversion_rates.checkout_completion
                 = toFixed(PercentOf(completed, reached), 1) \o "%"
           /\ result.abandonment.abandonment_rate
                 = toFixed(PercentOf(abandoned, reached), 1) \o "%"
           /\ reached = 0 =>
                 /\ result.conversion_rates.checkout_completion = "0.0%"
                 /\ result.abandonment.abandonment_rate = "0.0%"
           /\ reached > 0 =>
                 NAdd(rateOf(completed, reached), rateOf(abandoned, reached)) = Num(100)

\* C11 witness: completed and abandoned in the shares of 30 to 70 give 30.0%
\* and 70.0%
C11_Witness ==
    /\ ConversionDone
    /\ Len(fetched.orders) = 3
    /\ Len(fetched.abandonedCheckouts) = 7
    /\ result.funnel.reached_checkout = 10
    /\ result.conversion_rates.checkout_completion = "30.0%"
    /\ result.abandonment.abandonment_rate = "70.0%"

(***************************************************************************)
(* SpecBand: shopify_forecast on 10 August over a history of July and      *)
(* August, for increasing lists of horizons up to five months              *)
(***************************************************************************)
MaxBandPoints == 2

\* the horizons a call may ask for
BandHorizons == 1..5

\* 10 August, at noon: the months 30, 60, ... 150 days ahead are September,
\* October, November, December and January
BandNow == (DaysPerYear + 221) * HoursPerDay + 12

\* the increasing lists of n horizons
RECURSIVE IncreasingLists(_)
IncreasingLists(n) ==
    IF n = 0 THEN {<<>>}
    ELSE {Append(l, h) : l \in IncreasingLists(n - 1), h \in BandHorizons}

StrictlyIncreasing(l) == \A i \in 1..(Len(l) - 1) : l[i] < l[i + 1]

BandParams ==
    [forecast_months     : {l \in IncreasingLists(MaxBandPoints) : StrictlyIncreasing(l)},
     growth_scenario     : {"conservative", "moderate", "aggressive"},
     include_seasonality : BOOLEAN]

\* an empty history, and histories of one order on 1 July and one on 5 August
\* whose revenue grows by 1/24 from July to August
BandHistories ==
    {<<>>}
    \cup {<<Order(BandNow - 40 * HoursPerDay, a[1], Customer("c1", 1), "", ""),
            Order(BandNow - 5 * HoursPerDay, a[2], Customer("c1", 1), "", "")>> :
             a \in {<<"7.68", "8.00">>, <<"15.36", "16.00">>}}

InitBand ==
    /\ env_domain \in {"", ShopDomain}
    /\ now = BandNow
    /\ store \in {StoreOf(os, <<>>, <<>>) : os \in BandHistories}
    /\ Idle

NextBand == Forecast(BandParams) \/ Respond

SpecBand == InitBand /\ [][NextBand]_vars

\* revenue_high - revenue_low of the i-th confidence interval
BandWidth(i) ==
    NSub(parseFloat(result.confidence_intervals[i].revenue_high),
         parseFloat(result.confidence_intervals[i].revenue_low))

\* the band of every later, longer horizon is at least as wide
BandWidens ==
    \A i, j \in 1..Len(result.confidence_intervals) :
        result.confidence_intervals[i].months_ahead
            < result.confidence_intervals[j].months_ahead
        => NGe(BandWidth(j), BandWidth(i))

MaxCatalog == 6

\* <<quantity of a line item, totalInventory of its product>>: sold out,
\* slow, oversold, nearly sold out, overstocked, and a velocity of exactly 0.5
ItemProfiles == {<<20, 0>>, <<5, 50>>, <<5, -3>>, <<6, 5>>, <<1, 60>>, <<2, 4>>}

\* the line item of product i with profile pr
CatalogItem(i, pr) ==
    LineItem("Item " \o NatToString(i), pr[1],
             "gid://shopify/Product/" \o NatToString(i), pr[2], "10.00")

\* an order of the period with the given line items
OrderOf(items) ==
    [Order(RecentTime, "100.00", Customer("c1", 1), "", "") EXCEPT !.lineItems = items]

\* one order with a line item for each of n products, the first k of profile
\* a and the others of profile b, and (again = TRUE) a second order with one
\* more line item of the first product
CatalogOrders(n, k, a, b, again) ==
    LET items == [i \in 1..n |-> CatalogItem(i, IF i <= k THEN a ELSE b)]
    IN IF again /\ n > 0
       THEN <<OrderOf(items), OrderOf(<<items[1]>>)>>
       ELSE <<OrderOf(items)>>

CatalogStores ==
    {StoreOf(CatalogOrders(n, k, a, b, again), <<>>, <<>>) :
        n \in 0..MaxCatalog, k \in 0..MaxCatalog, a \in ItemProfiles,
        b \in ItemProfiles, again \in BOOLEAN}

InitProducts ==
    /\ env_domain \in {"", ShopDomain}
    /\ now = NoonNow
    /\ store \in CatalogStores
    /\ Idle

NextProducts == ProductPerformance(ProductParams) \/ Respond

SpecProducts == InitProducts /\ [][NextProducts]_vars

\* the elements of a list
Range(list) == {list[i] : i \in 1..Len(list)}

\* the products the report shows, in any of its lists
ListedProducts ==
    Range(result.top_by_revenue) \cup Range(result.top_by_units)
        \cup Range(result.fastest_moving)
        \cup Range(result.opportunities.restock_soon)
        \cup Range(result.opportunities.consider_promotion)

\* the fetched line items, as <<order, position>> pairs, of the product titled t
ItemsTitled(t) ==
    {oi \in (1..Len(fetched.orders)) \X (1..MaxCatalog + 1) :
        /\ oi[2] <= Len(fetched.orders[oi[1]].lineItems)
        /\ fetched.orders[oi[1]].lineItems[oi[2]].title = t}

RECURSIVE SumQuantityOf(_)
SumQuantityOf(pairs) ==
    IF pairs = {} THEN 0
    ELSE LET oi == CHOOSE x \in pairs : TRUE
         IN fetched.orders[oi[1]].lineItems[oi[2]].quantity + SumQuantityOf(pairs \ {oi})

\* C15: the velocity of every product of the report is units_sold / inventory
\* when its inventory is above 0 and units_sold otherwise (inventory zero or
\* negative); it is a finite number, nothing is divided by zero
C15_VelocityGuarded ==
    ProductDone =>
        /\ result.summary.total_products_sold
              = Cardinality({fetched.orders[oi[1]].lineItems[oi[2]].title :
                                oi \in {x \in (1..Len(fetched.orders)) \X (1..MaxCatalog + 1) :
                                           x[2] <= Len(fetched.orders[x[1]].lineItems)}})
        /\ Len(result.fastest_moving) = result.summary.total_products_sold
        /\ \A x \in ListedProducts :
              /\ x.units_sold = SumQuantityOf(ItemsTitled(x.title))
              /\ \A oi \in ItemsTitled(x.title) :
                    fetched.orders[oi[1]].lineItems[oi[2]].totalInventory = x.inventory
              /\ IsFinite(x.velocity)
              /\ x.velocity = IF x.inventory > 0 THEN Fin(x.units_sold, x.inventory)
                              ELSE Num(x.units_sold)

\* C15 witness: a product with 20 units sold and inventory 0 has velocity 20
\* and one with 5 units sold and inventory 50 has velocity 0.1
C15_Witness ==
    /\ ProductDone
    /\ \E x \in ListedProducts :
          x.units_sold = 20 /\ x.inventory = 0 /\ x.velocity = Num(20)
    /\ \E x \in ListedProducts :
          x.units_sold = 5 /\ x.inventory = 50 /\ x.velocity = Fin(1, 10)

\* the titles of the products of the fetched line items
FetchedTitles ==
    {fetched.orders[oi[1]].lineItems[oi[2]].title :
        oi \in {x \in (1..Len(fetched.orders)) \X (1..MaxCatalog + 1) :
                   x[2] <= Len(fetched.orders[x[1]].lineItems)}}

\* the inventory and the velocity of the product titled t, from its line items
InventoryTitled(t) ==
    LET oi == CHOOSE x \in ItemsTitled(t) : TRUE
    IN fetched.orders[oi[1]].lineItems[oi[2]].totalInventory

VelocityTitled(t) ==
    IF InventoryTitled(t) > 0
    THEN Fin(SumQuantityOf(ItemsTitled(t)), InventoryTitled(t))
    ELSE Num(SumQuantityOf(ItemsTitled(t)))

TitlesIn(list) == {list[i].title : i \in 1..Len(list)}

\* C16: restock_soon lists exactly the products with 0 < inventory < 10 and
\* velocity > 0.5, consider_promotion exactly those with inventory > 50 and
\* velocity < 0.1, and no product is in both
C16_OpportunityListsExact ==
    ProductDone =>
        /\ \A t \in FetchedTitles :
              /\ t \in TitlesIn(result.opportunities.restock_soon)
                    <=> /\ InventoryTitled(t) > 0
                        /\ InventoryTitled(t) < 10
                        /\ NGt(VelocityTitled(t), Fin(5, 10))
              /\ t \in TitlesIn(result.opportunities.consider_promotion)
                    <=> /\ InventoryTitled(t) > 50
                        /\ NLt(VelocityTitled(t), Fin(1, 10))
        /\ TitlesIn(result.opportunities.restock_soon) \subseteq FetchedTitles
        /\ TitlesIn(result.opportunities.consider_promotion) \subseteq FetchedTitles
        /\ TitlesIn(result.opportunities.restock_soon)
              \cap TitlesIn(result.opportunities.consider_promotion) = {}

(***************************************************************************)
(* SpecInvalid: the four tools called with a period of zero or fewer days, *)
(* or with no horizon, next to calls with valid parameters                 *)
(***************************************************************************)
MaxInvalidOrders == 1

\* a negative, a zero and a valid number of days
InvalidPeriodChoices == {-1, 0, 7}

\* orders created six hours and two days before the clock
InvalidSpecOrders ==
    {Order(t, a, Customer("c1", 1), "", "") :
        t \in {NoonNow - 6, RecentTime}, a \in {"100.00", "150.00"}}

InvalidAnalyticsParams ==
    [period_days : InvalidPeriodChoices, compare_previous : BOOLEAN,
     response_format : {"json"}]

InvalidConversionParams == [period_days : InvalidPeriodChoices]

InvalidProductParams == [period_days : InvalidPeriodChoices, top_n : {10}]

InvalidForecastParams ==
    [forecast_months     : {<<>>, <<1>>},
     growth_scenario     : {"moderate"},
     include_seasonality : BOOLEAN]

InitInvalid ==
    /\ env_domain \in {"", ShopDomain}
    /\ now = NoonNow
    /\ store \in {StoreOf(os, <<>>, <<>>) :
                     os \in ListsUpTo(InvalidSpecOrders, MaxInvalidOrders)}
    /\ Idle

NextInvalid ==
    \/ StoreAnalytics(InvalidAnalyticsParams)
    \/ Forecast(InvalidForecastParams)
    \/ ConversionAnalysis(InvalidConversionParams)
    \/ ProductPerformance(InvalidProductParams)
    \/ Respond

SpecInvalid == InitInvalid /\ [][NextInvalid]_vars

\* the call in progress was given a period of zero or fewer days, or no horizon
HasInvalidParams ==
    /\ tool # "none"
    /\ IF tool = "shopify_forecast" THEN params.forecast_months = <<>>
       ELSE params.period_days <= 0

\* C17: a call with a period of zero or fewer days, or with an empty list of
\* horizons, is rejected before any fetch or computation: it sends no query,
\* fetches nothing and returns an error, never a report
C17_InvalidParamsRejected ==
    HasInvalidParams =>
        /\ IsError
        /\ sent = NoSent
        /\ fetched = NoFetch

(***************************************************************************)
(* SpecFailure: the four tools against a store that may fail one of the    *)
(* requests of a call                                                      *)
(***************************************************************************)
MaxFailureOrders == 1
MaxOutageAt == 3

\* the rejection of client.post, and the error made of response.data.errors
FetchErrors == {"Network Error", "GraphQL Error: Throttled"}

Outages == {NoOutage} \cup [at : 1..MaxOutageAt, error : FetchErrors]

\* orders of the current and of the previous period of seven days
FailureOrders ==
    {Order(t, "100.00", Customer("c1", 1), "", "") : t \in {RecentTime, EarlierTime}}

FailureAnalyticsParams ==
    [period_days : {7}, compare_previous : BOOLEAN, response_format : {"json"}]

FailureForecastParams ==
    [forecast_months : {<<1>>}, growth_scenario : {"moderate"},
     include_seasonality : {FALSE}]

InitFailure ==
    /\ env_domain \in {"", ShopDomain}
    /\ now = NoonNow
    /\ store \in {[StoreOf(os, cs, <<>>) EXCEPT !.outage = o] :
                     os \in ListsUpTo(FailureOrders, MaxFailureOrders),
                     cs \in {<<>>, <<Checkout(RecentTime, "40.00")>>},
                     o \in Outages}
    /\ Idle

NextFailure ==
    \/ StoreAnalytics(FailureAnalyticsParams)
    \/ Forecast(FailureForecastParams)
    \/ ConversionAnalysis([period_days : {7}])
    \/ ProductPerformance([period_days : {7}, top_n : {10}])
    \/ Respond

SpecFailure == InitFailure /\ [][NextFailure]_vars

\* the number of fetches the pipeline of the call in progress makes
FetchesOf(name, p) ==
    IF name = "shopify_store_analytics" THEN (IF p.compare_previous THEN 3 ELSE 2)
    ELSE IF name = "shopify_conversion_analysis" THEN 2
    ELSE 1

\* a call is in progress and one of its fetches failed
FetchFailed ==
    /\ tool # "none"
    /\ env_domain # ""
    /\ store.outage.at \in 1..FetchesOf(tool, params)

\* C18: when a fetch of a pipeline fails, the caller gets that failure as it
\* was thrown and no report, the failed fetch was the last request made (no
\* retry, and no later fetch); a report is returned only when every fetch of
\* the pipeline was made and none failed
C18_FetchFailurePropagates ==
    /\ FetchFailed =>
          /\ result = [error |-> store.outage.error]
          /\ sent.requests = store.outage.at
    /\ (tool # "none" /\ ~IsError) =>
          /\ ~FetchFailed
          /\ sent.requests = FetchesOf(tool, params)

\* the second of three fetches failed after the first returned an order
C18_Witness ==
    /\ tool = "shopify_store_analytics"
    /\ params.compare_previous
    /\ store.outage = [at |-> 2, error |-> "Network Error"]
    /\ Len(fetched.orders) = 1
    /\ sent.customers = NoQuery
    /\ result = [error |-> "Network Error"]

(***************************************************************************)
(* SpecClock: the four tools called at two times and under two shop        *)
(* domains over stores that return the same records at both times          *)
(***************************************************************************)
MaxClockOrders == 1

\* 2 November and 2 December, at noon
ClockTimes == {NoonNow, PlusDays(NoonNow, 30)}

OtherDomain == "other.myshopify.com"
ClockDomains == {ShopDomain, OtherDomain}

\* orders of 31 October, one of them referred by a page of the shop
ClockOrders ==
    {Order(RecentTime, "100.00", Customer("c1", 1), r, "") :
        r \in {"", "https://shop.myshopify.com/cart"}}

ClockAnalyticsParams ==
    [period_days : {45}, compare_previous : BOOLEAN, response_format : {"json"}]

ClockForecastParams ==
    [forecast_months : {<<1>>}, growth_scenario : {"moderate"},
     include_seasonality : BOOLEAN]

InitClock ==
    /\ env_domain \in {""} \cup ClockDomains
    /\ now \in ClockTimes
    /\ store \in {StoreOf(os, <<>>, <<>>) : os \in ListsUpTo(ClockOrders, MaxClockOrders)}
    /\ Idle

NextClock ==
    \/ StoreAnalytics(ClockAnalyticsParams)
    \/ Forecast(ClockForecastParams)
    \/ ConversionAnalysis([period_days : {45}])
    \/ ProductPerformance([period_days : {45}, top_n : {10}])
    \/ Respond

SpecClock == InitClock /\ [][NextClock]_vars

\* the report a pipeline builds from the fetched collections f and the
\* parameters p when it is run at time t under shop domain d
reportOf(name, t, d, p, f) ==
    IF name = "shopify_store_analytics"
        THEN analyticsOf(t, p, f.orders, f.previousOrders, f.newCustomers, d)
    ELSE IF name = "shopify_forecast" THEN forecastResultOf(t, p, f.orders)
    ELSE IF name = "shopify_conversion_analysis"
        THEN conversionAnalysisOf(p, f.orders, f.abandonedCheckouts)
    ELSE productAnalysisOf(p, f.orders)

\* C19: the output of a pipeline is determined by the fetched collections and
\* the parameters alone: a run at any other time, or under any other shop
\* domain, that fetched the same collections with the same parameters returns
\* the same report
C19_SameInputsSameOutput ==
    (tool # "none" /\ ~IsError) =>
        \A t \in ClockTimes, d \in ClockDomains :
            reportOf(tool, t, d, params, fetched) = result

(***************************************************************************)
(* SpecFlags: shopify_conversion_analysis in both response formats over    *)
(* stores that differ in their counts of completed orders, of orders of    *)
(* returning customers and of abandoned checkouts, up to a page of each    *)
(***************************************************************************)
MaxFlagCount == 2

\* <<completed, of returning customers, abandoned>>: the small counts, 3 and
\* 7 (a rate of 70%), and 62 and 145 (a rate of 70.048...%)
FlagShapes ==
    {<<c, r, a>> \in (0..MaxFlagCount) \X (0..MaxFlagCount) \X (0..MaxFlagCount) : r <= c}
        \cup {<<3, 0, 7>>, <<3, 3, 7>>, <<62, 12, 145>>}

FlagStore(completed, returning, abandoned, abandonedAmount) ==
    StoreOf(Repeat(Order(RecentTime, "100.00", Customer("c2", 3), "", ""), returning)
               \o Repeat(Order(RecentTime, "100.00", Customer("c1", 1), "", ""),
                         completed - returning),
            Repeat(Checkout(RecentTime, abandonedAmount), abandoned),
            <<>>)

FlagParams == [period_days : {7}, response_format : {"json", "markdown"}]

InitFlags ==
    /\ env_domain \in {"", ShopDomain}
    /\ now = NoonNow
    /\ store \in {FlagStore(x[1], x[2], x[3], amount) :
                     x \in FlagShapes, amount \in {"80.00", "120.00"}}
    /\ Idle

NextFlags == ConversionAnalysis(FlagParams) \/ Respond

SpecFlags == InitFlags /\ [][NextFlags]_vars

\* whether the markdown report of the call carries a recommendation
Flagged(line) == \E i \in 1..Len(locals.md) : locals.md[i] = line

\* a conversion analysis was rendered as markdown
MarkdownFunnelDone == ConversionDone /\ responseFormatOf(params) = "markdown"

FetchedReturning ==
    Cardinality({i \in 1..Len(fetched.orders) :
                    fetched.orders[i].customer.ordersCount > 1})

HighValueFlagExact ==
    Flagged("High-value carts being abandoned")
        <=> NGt(averageOf(SumAmounts(fetched.abandonedCheckouts),
                          Len(fetched.abandonedCheckouts)),
                averageOf(SumAmounts(fetched.orders), Len(fetched.orders)))

\* the returning-customer rate is taken as 0 when there is no completed order
LowRetentionFlagExact ==
    Flagged("Low returning customer rate")
        <=> FetchedReturning * 100 < LowRetentionPercent * Len(fetched.orders)
               \/ Len(fetched.orders) = 0

HighAbandonmentFlagExact ==
    Flagged("High abandonment rate")
        <=> Len(fetched.abandonedCheckouts) * 100
               > HighAbandonmentPercent
                    * (Len(fetched.orders) + Len(fetched.abandonedCheckouts))

\* C20: in the markdown report the high-abandonment flag is raised exactly
\* when abandoned / (completed + abandoned) > 70%, the high-value-cart flag
\* exactly when the average abandoned value exceeds the average completed
\* value, and the low-retention flag exactly when the orders of returning
\* customers are fewer than 20% of the completed orders
C20_FlagsArePureThresholds ==
    MarkdownFunnelDone =>
        /\ HighAbandonmentFlagExact
        /\ HighValueFlagExact
        /\ LowRetentionFlagExact

(***************************************************************************)
(* Spec: the traffic estimates of the three reports that make one          *)
(***************************************************************************)
\* the assumed share of sessions that end in an order, 0.025
ConversionShare == Fin(25, 1000)

\* the sessions that n orders stand for at that share
SessionsFor(n) == MathRound(NDiv(n, ConversionShare))

\* C21: every traffic estimate is made with the one conversion constant of
\* 2.5%: the store analytics sessions are orders / 0.025, the projected
\* sessions of each horizon are the projected orders / 0.025, and the funnel's
\* visitor estimate for a set of completed orders is the session estimate the
\* store analytics gives for the same orders
C21_OneConversionConstant ==
    /\ AnalyticsDone =>
          result.traffic.estimated_sessions = SessionsFor(Num(Len(fetched.orders)))
    /\ ForecastDone =>
          \A i \in 1..Len(result.forecasts) :
              result.forecasts[i].projected_monthly_sessions
                 = SessionsFor(projectedOf(BaselineOrders, now, params.forecast_months[i],
                                           AppliedRate, params.include_seasonality))
    /\ ConversionDone =>
          result.funnel.estimated_visitors = SessionsFor(Num(Len(fetched.orders)))

(***************************************************************************)
(* SpecPrecedence: shopify_store_analytics over orders whose referrers     *)
(* match one platform, two or more platforms, or none                      *)
(***************************************************************************)
MaxPrecedenceOrders == 1

PrecedenceReferrers ==
    { "",
      "https://www.google.com/",
      "https://m.facebook.com/ad",
      "https://fb.me/x",
      "https://l.instagram.com/",
      "https://twitter.com/u",
      "https://t.co/abc",
      "https://x.com/u",
      "https://www.tiktok.com/",
      "https://mail.example.com/?utm_medium=email",
      "https://app.klaviyo.com/c",
      "https://mailchimp.com/c",
      "https://www.pinterest.com/pin/1",
      "https://randomblog.example.com",
      "https://www.google.com/?utm_source=facebook",
      "https://l.facebook.com/l.php?u=instagram",
      "https://t.co/instagram",
      "https://x.com/tiktok",
      "https://www.tiktok.com/?utm_medium=email",
      "https://mailchimp.com/pinterest",
      "https://www.pinterest.com/?q=google",
      "https://www.pinterest.com/?q=klaviyo",
      "https://twitter.com/?q=fb.me",
      "https://x.com/pinterest?via=email" }

PrecedenceOrders ==
    {Order(NoonNow - HoursPerDay, "10.00", NoCustomer, r, l) :
        r \in PrecedenceReferrers,
        l \in {"", "https://shop.myshopify.com/?utm_source=facebook"}}

InitPrecedence ==
    /\ env_domain \in {"", ShopDomain}
    /\ now = NoonNow
    /\ store \in {StoreOf(os, <<>>, <<>>) :
                     os \in ListsUpTo(PrecedenceOrders, MaxPrecedenceOrders)}
    /\ Idle

NextPrecedence == StoreAnalytics(TrafficParams) \/ Respond

SpecPrecedence == InitPrecedence /\ [][NextPrecedence]_vars

\* the platforms in the order of the attribution
PlatformOrder ==
    <<"google", "facebook", "instagram", "twitter", "tiktok", "email", "pinterest">>

\* whether a referrer matches a platform: it holds one of the platform's
\* words, or for twitter names one of its hosts
MatchesPlatform(referrer, platform) ==
    IF platform = "google" THEN Includes(referrer, "google")
    ELSE IF platform = "facebook"
        THEN Includes(referrer, "facebook") \/ Includes(referrer, "fb.")
    ELSE IF platform = "instagram" THEN Includes(referrer, "instagram")
    ELSE IF platform = "twitter"
        THEN \E host \in {"twitter.com", "t.co", "x.com"} : matchesHost(referrer, host)
    ELSE IF platform = "tiktok" THEN Includes(referrer, "tiktok")
    ELSE IF platform = "email"
        THEN \E word \in {"email", "klaviyo", "mailchimp"} : Includes(referrer, word)
    ELSE Includes(referrer, "pinterest")

\* the positions in PlatformOrder of the platforms a referrer matches
MatchedPositions(referrer) ==
    {k \in 1..Len(PlatformOrder) : MatchesPlatform(referrer, PlatformOrder[k])}

\* C22: attribution is first match wins in the order google, facebook,
\* instagram, twitter, tiktok, email, pinterest: an order whose referrer
\* matches one or more platforms gets the earliest of them, and an order gets
\* a platform only when its referrer matches it and none before it
C22_FirstMatchWins ==
    AnalyticsDone =>
        \A i \in 1..Len(fetched.orders) :
            LET matched == MatchedPositions(ReferrerAt(i))
            IN /\ matched # {} =>
                     \E k \in matched :
                         /\ \A j \in matched : k <= j
                         /\ locals.source[i] = PlatformOrder[k]
               /\ matched = {} => locals.source[i] \notin PlatformSet

\* C22 witness: a referrer on a twitter host that holds "instagram" got
\* instagram, the earlier of the two
C22_Witness ==
    /\ AnalyticsDone
    /\ Len(fetched.orders) = 1
    /\ ReferrerAt(1) = "https://t.co/instagram"
    /\ MatchedPositions(ReferrerAt(1)) = {3, 4}
    /\ locals.source[1] = "instagram"

(***************************************************************************)
(* SpecFormats: shopify_store_analytics with and without the comparison,   *)
(* in both response formats                                                *)
(***************************************************************************)
MaxFormatOrders == 2

FormatOrders ==
    {Order(t, a, Customer("c1", 1), "", "") :
        t \in {RecentTime, EarlierTime}, a \in {"100.00", "150.00"}}

FormatParams ==
    [period_days : {7}, compare_previous : BOOLEAN,
     response_format : {"json", "markdown"}]

InitFormats ==
    /\ env_domain \in {"", ShopDomain}
    /\ now = NoonNow
    /\ store \in {StoreOf(os, <<>>, <<>>) : os \in ListsUpTo(FormatOrders, MaxFormatOrders)}
    /\ Idle

NextFormats == StoreAnalytics(FormatParams) \/ Respond

SpecFormats == InitFormats /\ [][NextFormats]_vars

\* a store analytics call without the comparison got past the configuration
UncomparedCall ==
    /\ tool = "shopify_store_analytics"
    /\ env_domain # ""
    /\ ~params.compare_previous

\* C23: store analytics called with compare_previous false sends no
\* previous-period fetch, sets comparison to null and returns its report
\* without raising, in the json and in the markdown format
C23_NoComparisonStillReports ==
    UncomparedCall =>
        /\ sent.previous = NoQuery
        /\ sent.requests = 2
        /\ ~IsError
        /\ result.comparison = NoComparison

(***************************************************************************)
(* SpecHorizons: shopify_forecast asked for horizons that are negative,    *)
(* zero or positive                                                        *)
(***************************************************************************)
MaxHorizonPoints == 1
MaxHorizonOrders == 1

\* forecast_months: z.array(z.number()) takes any number
SignedHorizons == {-1, 0, 1, 2}

HorizonParams ==
    [forecast_months     : ListsUpTo(SignedHorizons, MaxHorizonPoints),
     growth_scenario     : {"moderate"},
     include_seasonality : BOOLEAN]

\* orders of 31 October and of 23 September
HorizonOrders ==
    {Order(t, a, Customer("c1", 1), "", "") :
        t \in {RecentTime, NoonNow - 40 * HoursPerDay}, a \in {"100.00", "150.00"}}

InitHorizons ==
    /\ env_domain \in {"", ShopDomain}
    /\ now = NoonNow
    /\ store \in {StoreOf(os, <<>>, <<>>) :
                     os \in ListsUpTo(HorizonOrders, MaxHorizonOrders)}
    /\ Idle

NextHorizons == Forecast(HorizonParams) \/ Respond

SpecHorizons == InitHorizons /\ [][NextHorizons]_vars

\* C27: at every forecast point, whatever numbers forecast_months holds,
\* revenue_low <= projected_monthly_revenue <= revenue_high, and revenue_low
\* is not negative
C27_BandAroundProjection ==
    ForecastDone =>
        \A i \in 1..Len(result.forecasts) :
            LET projected == parseFloat(result.forecasts[i].projected_monthly_revenue)
                low       == parseFloat(result.confidence_intervals[i].revenue_low)
                high      == parseFloat(result.confidence_intervals[i].revenue_high)
            IN /\ NGe(projected, low)
               /\ NGe(high, projected)
               /\ NGe(low, Num(0))

(***************************************************************************)
(* SpecLineItems: shopify_product_performance over orders of one or two    *)
(* line items, which may be of the same product                            *)
(***************************************************************************)
MaxLineOrders == 2

\* line items of two variants of product 1 and of one variant of product 2
LineItemChoices ==
    {LineItem("Item 1", 1, "gid://shopify/Product/1", 5, "10.00"),
     LineItem("Item 1", 3, "gid://shopify/Product/1", 5, "36.00"),
     LineItem("Item 2", 2, "gid://shopify/Product/2", 8, "20.00")}

LineOrders == {OrderOf(items) : items \in ListsUpTo(LineItemChoices, 2) \ {<<>>}}

InitLineItems ==
    /\ env_domain \in {"", ShopDomain}
    /\ now = NoonNow
    /\ store \in {StoreOf(os, <<>>, <<>>) : os \in ListsUpTo(LineOrders, MaxLineOrders)}
    /\ Idle

NextLineItems == ProductPerformance([period_days : {7}, top_n : {10}]) \/ Respond

SpecLineItems == InitLineItems /\ [][NextLineItems]_vars

\* the fetched orders that hold a line item of the product titled t
OrdersHolding(t) == {oi[1] : oi \in ItemsTitled(t)}

\* C28: a product's order_count is the number of distinct orders of the window
\* that contain it, its units_sold is the sum of the quantities of its line
\* items, and total_units_sold is the sum of the quantities of all line items
C28_ProductCounts ==
    ProductDone =>
        /\ \A prod \in ListedProducts :
              /\ prod.order_count = Cardinality(OrdersHolding(prod.title))
              /\ prod.units_sold = SumQuantityOf(ItemsTitled(prod.title))
        /\ result.summary.total_units_sold = totalItemsOf(fetched.orders)

(***************************************************************************)
(* SpecSegments: shopify_segment_analysis in its four modes over customers *)
(* that differ in recency, order count and total spent                     *)
(***************************************************************************)
MaxSegmentCustomers == 2

\* a customer as the customers query returns it; lastOrderAt is NoDate when
\* the customer has no last order
Profile(ordersCount, totalSpent, lastOrderAt, marketingState) ==
    [id |-> 0, email |-> "c@example.com", createdAt |-> NoonNow - 400 * HoursPerDay,
     ordersCount |-> ordersCount, totalSpent |-> totalSpent,
     lastOrderAt |-> lastOrderAt, tags |-> <<>>, marketingState |-> marketingState]

\* the times of a last order: none, and 0, 45, 75, 120 and 400 days ago
LastOrderTimes ==
    {NoDate} \cup {NoonNow - d * HoursPerDay : d \in {0, 45, 75, 120, 400}}

\* every combination of the recency, frequency and monetary bands
RfmProfiles ==
    {Profile(n, spent, last, "SUBSCRIBED") :
        n \in {0, 1, 2, 3, 5, 10},
        spent \in {"0.00", "49.99", "50.00", "200.00", "500.00", "1000.00"},
        last \in LastOrderTimes}

\* the customers of the stores: the worst and the best of every band, and
\* some between
SegmentCustomers ==
    {Profile(0, "0.00", NoDate, "NOT_SUBSCRIBED"),
     Profile(1, "49.99", NoonNow - 400 * HoursPerDay, "SUBSCRIBED"),
     Profile(2, "50.00", NoonNow - 120 * HoursPerDay, "SUBSCRIBED"),
     Profile(3, "200.00", NoonNow - 75 * HoursPerDay, "NOT_SUBSCRIBED"),
     Profile(5, "500.00", NoonNow - 45 * HoursPerDay, "SUBSCRIBED"),
     Profile(10, "1000.00", NoonNow, "SUBSCRIBED")}

SegmentParams == [segment_type : {"rfm", "lifecycle", "value_tiers", "engagement"}]

InitSegments ==
    /\ env_domain \in {"", ShopDomain}
    /\ now = NoonNow
    /\ store \in {StoreOf(<<>>, <<>>, cs) :
                     cs \in ListsUpTo(SegmentCustomers, MaxSegmentCustomers)}
    /\ Idle

NextSegments == SegmentAnalysis(SegmentParams) \/ Respond

SpecSegments == InitSegments /\ [][NextSegments]_vars

RfmSegments == {"champions", "loyal", "potential", "at_risk", "hibernating"}

\* the analysis in RFM mode has run to its end
RfmDone ==
    /\ tool = "shopify_segment_analysis"
    /\ ~IsError
    /\ params.segment_type = "rfm"

\* C29: in RFM mode every customer is placed in one of champions, loyal,
\* potential, at_risk and hibernating, and in one only (the counts of the
\* segments add up to the customers); and each of the five segments is
\* reachable: some profile of recency, order count and total spent is
\* assigned to it
C29_FiveSegmentsAllReachable ==
    RfmDone =>
        /\ \A i \in 1..Len(fetched.customers) : locals.segment[i] \in RfmSegments
        /\ DOMAIN result.segments \subseteq RfmSegments
        /\ \A name \in DOMAIN result.segments :
              result.segments[name].count
                 = Cardinality({i \in 1..Len(fetched.customers) : locals.segment[i] = name})
        /\ \A name \in RfmSegments :
              \E profile \in RfmProfiles : segmentOf("rfm", now, profile) = name

(***************************************************************************)
(* The bulk tools.  Each of them works through a list of items and calls   *)
(* executeGraphQL once or twice per item inside a try block of its own; a  *)
(* call that throws is caught there and becomes the item's entry in the    *)
(* results.  The shop answers the calls of one handler in turn: the calls  *)
(* whose number is in store.failing are rejected (executeGraphQL throws),  *)
(* the mutations whose number is in store.refusing are answered with       *)
(* userErrors, and the other mutations are applied to the shop.  A run is  *)
(* the record of the loop so far: the shop, the requests posted, the calls *)
(* of executeGraphQL (each with the position of the item it was made for   *)
(* and how it ended: "thrown", "userErrors" or "data"), the mutations sent *)
(* and the results pushed.                                                 *)
(***************************************************************************)
\* the record with the field set
WithField(record, name, value) ==
    [f \in DOMAIN record \cup {name} |-> IF f = name THEN value ELSE record[f]]

NetworkError == "Network Error"
UserErrors == <<[field |-> "input", message |-> "is invalid"]>>

\* toGid
StartsWith(s, k) == Len(k) <= Len(s) /\ SubSeq(s, 1, Len(k)) = k

toGid(resourceType, id) ==
    IF StartsWith(id, "gid://") THEN id
    ELSE "gid://shopify/" \o resourceType \o "/" \o id

RunOf(shop) ==
    [shop |-> shop, requests |-> 0, calls |-> <<>>, mutations |-> <<>>,
     results |-> <<>>]

\* the message of the error executeGraphQL throws at the next call of the
\* run, "" when the call is answered
callError(run) ==
    IF env_domain = "" THEN ConfigError.error
    ELSE IF run.requests + 1 \in run.shop.failing THEN NetworkError
    ELSE ""

\* the run after one more call of executeGraphQL, which the shop answers
\* with the answer unless the call throws (getConfig throws before anything
\* is posted)
called(run, answer) ==
    [run EXCEPT
        !.requests = IF env_domain = "" THEN @ ELSE @ + 1,
        !.calls = Append(@, [item |-> Len(run.results) + 1,
                             outcome |-> IF callError(run) # "" THEN "thrown"
                                         ELSE answer])]

\* results.push(entry)
pushed(run, entry) == [run EXCEPT !.results = Append(@, entry)]

\* a catch block that pushes nothing
caught_silent(run, entry) == run

\* catch (error) { results.push(entry) }
caught(run, entry) == pushed(run, entry)

\* the run at the start of the loop of a handler whose one query, before
\* the loop, was answered: the calls it records are those of the loop
LoopStart(shop) == [called(RunOf(shop), "data") EXCEPT !.calls = <<>>]

\* the answer to a mutation: userErrors when the shop refuses it
answerOf(refused) == IF refused THEN "userErrors" ELSE "data"

\* the positions of the list whose element has the id
PositionsOfId(list, id) == {i \in 1..Len(list) : list[i].id = id}

\* product(id: $id): the product of the shop with that id, <<>> for null
shopProduct(shop, gid) ==
    IF PositionsOfId(shop.products, gid) = {} THEN <<>>
    ELSE shop.products[CHOOSE i \in PositionsOfId(shop.products, gid) : TRUE]

\* a price the shop accepts: a number that is not negative
IsValidPrice(price) ==
    /\ Len(price) > 0
    /\ IsDigit(CharAt(price, 1))
    /\ IsFinite(parseFloat(price))

\* the variant after productVariantsBulkUpdate with the inputs of the list
variantAfter(v, variants) ==
    IF PositionsOfId(variants, v.id) = {} THEN v
    ELSE LET u == variants[CHOOSE i \in PositionsOfId(variants, v.id) :
                              \A j \in PositionsOfId(variants, v.id) : j <= i]
         IN [v EXCEPT !.price = u.price,
                      !.compareAtPrice = IF "compareAtPrice" \in DOMAIN u
                                         THEN u.compareAtPrice ELSE @]

\* the shop refuses the variants mutation number r: it is one of those it
\* answers with userErrors, or a price of it is not a valid price
variantsRefused(shop, r, variants) ==
    \/ r \in shop.refusing
    \/ \E i \in 1..Len(variants) : ~IsValidPrice(variants[i].price)

\* the shop after productVariantsBulkUpdate(productId, variants)
shopAfterVariants(shop, productId, variants) ==
    [shop EXCEPT
        !.revision = @ + 1,
        !.products =
            [i \in 1..Len(@) |->
                IF @[i].id # productId THEN @[i]
                ELSE [@[i] EXCEPT !.variants =
                         [k \in 1..Len(@) |-> variantAfter(@[k], variants)]]]]

\* productVariants of the answer: the variants the mutation has updated
updatedVariants(shop, productId, variants) ==
    SelectSeq(shopProduct(shop, productId).variants,
               LAMBDA v : PositionsOfId(variants, v.id) # {})

(***************************************************************************)
(* shopify_bulk_update_prices.  An option that is left out and one that is *)
(* "" or 0 take the same branches (every use is a test of truthiness), so  *)
(* an update carries all six fields.                                       *)
(***************************************************************************)
\* .filter((v) => !update.variant_id || v.id.includes(update.variant_id))
selectedVariants(update, product) ==
    SelectSeq(product.variants,
               LAMBDA v : update.variant_id = "" \/ Includes(v.id, update.variant_id))

\* currentPrice * (1 + price_change_percent / 100)
percentChanged(price, percent) ==
    NMul(price, NAdd(Num(1), NDiv(Num(percent), Num(100))))

\* newPrice of the map of shopify_bulk_update_prices
newPriceOf(update, v) ==
    IF update.new_price # "" THEN parseFloat(update.new_price)
    ELSE IF update.price_change_percent # 0
         THEN percentChanged(parseFloat(v.price), update.price_change_percent)
    ELSE IF update.price_change_amount # ""
         THEN NAdd(parseFloat(v.price), parseFloat(update.price_change_amount))
    ELSE parseFloat(v.price)

\* if (compare_at_price) variantUpdate.compareAtPrice = compare_at_price
withCompareAt(variantUpdate, compare_at_price) ==
    IF compare_at_price # ""
    THEN WithField(variantUpdate, "compareAtPrice", compare_at_price)
    ELSE variantUpdate

variantUpdateOf(update, v) ==
    withCompareAt([id |-> v.id, price |-> toFixed(newPriceOf(update, v), 2)],
                  update.compare_at_price)

\* .map((v) => { ... return variantUpdate; })
variantUpdatesFor(update, selected) ==
    [k \in 1..Len(selected) |-> variantUpdateOf(update, selected[k])]

variantUpdatesOf(update, product) ==
    variantUpdatesFor(update, selectedVariants(update, product))

\* the entry of a product whose variants were updated
updatedEntry(update, product, updated) ==
    [product_id |-> update.product_id,
     product_title |-> product.title,
     variants_updated |-> Len(updated),
     new_prices |-> [k \in 1..Len(updated) |->
                        [variant |-> updated[k].title, price |-> updated[k].price]]]

\* the run after the mutation was answered without userErrors
priceUpdated(run, update, product, productGid, variants) ==
    pushed(run, updatedEntry(update, product,
                             updatedVariants(run.shop, productGid, variants)))

\* the run after executeGraphQL(VARIANT_BULK_UPDATE_MUTATION, ...) for the
\* variants, which throws the error when it is not ""
priceSent(run, update, product, productGid, variants, error, refused) ==
    IF error # ""
    THEN caught(run, [product_id |-> update.product_id, error |-> error])
    ELSE IF refused
    THEN pushed(run, [product_id |-> update.product_id,
                      product_title |-> product.title, error |-> UserErrors])
    ELSE priceUpdated([run EXCEPT !.shop = shopAfterVariants(@, productGid, variants)],
                      update, product, productGid, variants)

\* the run after the variants of the product were computed
priceSend(run, update, product, productGid, variants) ==
    priceSent([called(run, answerOf(variantsRefused(run.shop, run.requests + 1, variants)))
                  EXCEPT !.mutations = Append(@, [item |-> Len(run.results) + 1,
                                                  productId |-> productGid,
                                                  variants |-> variants])],
              update, product, productGid, variants, callError(run),
              variantsRefused(run.shop, run.requests + 1, variants))

\* the run after the product query was answered with the product
priceFetched(run, update, product, productGid) ==
    IF product = <<>>
    THEN pushed(run, [product_id |-> update.product_id, error |-> "Product not found"])
    ELSE priceSend(run, update, product, productGid, variantUpdatesOf(update, product))

\* the run after the product query, which throws the error when it is not ""
priceQueried(run, update, productGid, error, product) ==
    IF error # ""
    THEN caught(run, [product_id |-> update.product_id, error |-> error])
    ELSE priceFetched(run, update, product, productGid)

\* the body of the loop of shopify_bulk_update_prices for one update
priceUpdateStep(run, update) ==
    priceQueried(called(run, "data"), update, toGid("Product", update.product_id),
                 callError(run),
                 shopProduct(run.shop, toGid("Product", update.product_id)))

\* for (const item of items) { ... }: the run after the body has run for
\* every item in turn
EachItem(run, items, Step(_, _)) ==
    LET after[i \in 0..Len(items)] ==
            IF i = 0 THEN run ELSE Step(after[i - 1], items[i])
    IN after[Len(items)]

bulkUpdatePricesOf(shop, updates) == EachItem(RunOf(shop), updates, priceUpdateStep)

(***************************************************************************)
(* shopify_collection_price_update                                         *)
(***************************************************************************)
\* Math.max(0, x)
MathMax0(x) == IF IsNaN(x) THEN NaN ELSE IF NGt(Num(0), x) THEN Num(0) ELSE x

collectionNewPriceOf(p, v) ==
    IF p.price_change_percent # 0
    THEN percentChanged(parseFloat(v.price), p.price_change_percent)
    ELSE IF p.price_change_amount # ""
    THEN NAdd(parseFloat(v.price), parseFloat(p.price_change_amount))
    ELSE parseFloat(v.price)

\* if (set_compare_at_from_current) update.compareAtPrice = currentPrice.toFixed(2)
withCurrentCompareAt(update, set_compare_at_from_current, currentPrice) ==
    IF set_compare_at_from_current
    THEN WithField(update, "compareAtPrice", toFixed(currentPrice, 2))
    ELSE update

collectionVariantUpdateOf(p, v) ==
    withCurrentCompareAt(
        [id |-> v.id, price |-> toFixed(MathMax0(collectionNewPriceOf(p, v)), 2)],
        p.set_compare_at_from_current, parseFloat(v.price))

\* the run after executeGraphQL(VARIANT_BULK_UPDATE_MUTATION, ...) for the
\* product, which throws the error when it is not ""
collectionSent(run, product, variants, error, refused) ==
    IF error # ""
    THEN caught(run, [product |-> product.title, error |-> error])
    ELSE IF refused
    THEN pushed(run, [product |-> product.title, error |-> UserErrors])
    ELSE pushed([run EXCEPT !.shop = shopAfterVariants(@, product.id, variants)],
                [product |-> product.title, variants_updated |-> Len(variants),
                 success |-> TRUE])

collectionSend(run, product, variants) ==
    collectionSent([called(run, answerOf(variantsRefused(run.shop, run.requests + 1,
                                                          variants)))
                       EXCEPT !.mutations = Append(@, [item |-> Len(run.results) + 1,
                                                       productId |-> product.id,
                                                       variants |-> variants])],
                   product, variants, callError(run),
                   variantsRefused(run.shop, run.requests + 1, variants))

\* the body of the loop of shopify_collection_price_update for one product
\* of the collection (the products are those of the answer to the query)
collectionStep(p, run, product) ==
    collectionSend(run, product,
                   [k \in 1..Len(product.variants) |->
                       collectionVariantUpdateOf(p, product.variants[k])])

\* collection(id: $id): the collection of the shop with that id, <<>> for null
collectionOf(shop, gid) ==
    IF PositionsOfId(shop.collections, gid) = {} THEN <<>>
    ELSE shop.collections[CHOOSE i \in PositionsOfId(shop.collections, gid) : TRUE]

\* products(first: 250) of the collection, as the shop holds them
collectionProducts(shop, collection) ==
    FirstN(SelectSeq(shop.products,
                      LAMBDA product : product.id \in collection.productIds), PageSize)

\* collection.products.nodes, <<>> when the collection is null
fetchedProductsOf(shop, p) ==
    LET collection == collectionOf(shop, toGid("Collection", p.collection_id))
    IN IF collection = <<>> THEN <<>> ELSE collectionProducts(shop, collection)

\* the run of a call whose first query was answered
collectionPriceUpdateOf(shop, p) ==
    LET Step(run, product) == collectionStep(p, run, product)
    IN EachItem(LoopStart(shop), fetchedProductsOf(shop, p), Step)

(***************************************************************************)
(* The two price tools as actions.  A tool that rewrites products is       *)
(* called while the shop has applied fewer than MaxRevisions mutations,    *)
(* which keeps the prices and the products of the model finite.            *)
(***************************************************************************)
MaxRevisions == 1

BulkUpdatePricesRun(p) ==
    LET run == bulkUpdatePricesOf(store, p.updates)
    IN /\ tool = "none"
       /\ store.revision < MaxRevisions
       /\ tool' = "shopify_bulk_update_prices"
       /\ params' = p
       /\ sent' = [NoSent EXCEPT !.requests = run.requests, !.calls = run.calls,
                                 !.mutations = run.mutations]
       /\ fetched' = NoFetch
       /\ locals' = NoLocals
       /\ result' = [results |-> run.results]
       /\ store' = run.shop
       /\ UNCHANGED <<env_domain, now>>

\* shopify_bulk_update_prices, its parameters drawn from P
BulkUpdatePrices(P) == \E p \in P : BulkUpdatePricesRun(p)

CollectionPriceUpdateRun(p) ==
    LET thrown     == callError(RunOf(store))
        collection == collectionOf(store, toGid("Collection", p.collection_id))
        run        == collectionPriceUpdateOf(store, p)
    IN /\ tool = "none"
       /\ store.revision < MaxRevisions
       /\ tool' = "shopify_collection_price_update"
       /\ params' = p
       /\ locals' = NoLocals
       /\ IF thrown # ""
          THEN /\ sent' = [NoSent EXCEPT !.requests = called(RunOf(store), "data").requests]
               /\ fetched' = NoFetch
               /\ result' = [error |-> thrown]
               /\ store' = store
          ELSE IF collection = <<>>
          THEN /\ sent' = [NoSent EXCEPT !.requests = 1]
               /\ fetched' = NoFetch
               /\ result' = [text |-> "Collection not found"]
               /\ store' = store
          ELSE /\ sent' = [NoSent EXCEPT !.requests = run.requests,
                                         !.calls = run.calls,
                                         !.mutations = run.mutations]
               /\ fetched' = [NoFetch EXCEPT !.products = fetchedProductsOf(store, p)]
               /\ result' = [collection |-> collection.title, results |-> run.results]
               /\ store' = run.shop
       /\ UNCHANGED <<env_domain, now>>

\* shopify_collection_price_update, its parameters drawn from P
CollectionPriceUpdate(P) == \E p \in P : CollectionPriceUpdateRun(p)

(***************************************************************************)
(* SpecPrices: the two price tools over a shop of two products, the first  *)
(* with the variants 1 and 12                                              *)
(***************************************************************************)
MaxPriceUpdates == 1
MaxFailingCall == 2

VariantOf(id, title, price) ==
    [id |-> toGid("ProductVariant", id), title |-> title, price |-> price,
     compareAtPrice |-> ""]

ShopProducts ==
    <<[id |-> "gid://shopify/Product/1", title |-> "Shirt", status |-> "ACTIVE",
       tags |-> <<"summer">>, descriptionHtml |-> "<p>A shirt</p>",
       seo |-> [title |-> "Shirt", description |-> ""],
       variants |-> <<VariantOf("1", "S", "10.00"), VariantOf("12", "M", "25.50")>>],
      [id |-> "gid://shopify/Product/2", title |-> "Mug", status |-> "DRAFT",
       tags |-> <<>>, descriptionHtml |-> "",
       seo |-> [title |-> "", description |-> ""],
       variants |-> <<VariantOf("2", "Default Title", "4.00")>>]>>

ShopCollections ==
    <<[id |-> "gid://shopify/Collection/1", title |-> "Sale",
       productIds |-> {"gid://shopify/Product/1", "gid://shopify/Product/2"}]>>

\* the shop, with the calls it rejects and the mutations it refuses
ShopOf(products, collections, customers, failing, refusing) ==
    [orders |-> <<>>, checkouts |-> <<>>, customers |-> customers,
     products |-> products, collections |-> collections, outage |-> NoOutage,
     failing |-> failing, refusing |-> refusing, revision |-> 0]

FailingCalls == {{}} \cup {{r} : r \in 1..MaxFailingCall}

PriceShops ==
    {ShopOf(ShopProducts, ShopCollections, <<>>, failing, refusing) :
        failing \in FailingCalls, refusing \in {{}, {2}}}

NoChange ==
    [product_id |-> "1", variant_id |-> "", new_price |-> "",
     price_change_percent |-> 0, price_change_amount |-> "", compare_at_price |-> ""]

PriceChanges ==
    {[NoChange EXCEPT !.new_price = "29.99"],
     [NoChange EXCEPT !.new_price = "-1.00"],
     [NoChange EXCEPT !.price_change_percent = 10],
     [NoChange EXCEPT !.price_change_percent = -20, !.compare_at_price = "30.00"],
     [NoChange EXCEPT !.price_change_percent = -150],
     [NoChange EXCEPT !.price_change_amount = "5.00"],
     [NoChange EXCEPT !.price_change_amount = "-12.00"],
     NoChange}

PriceUpdates ==
    {[change EXCEPT !.product_id = product_id, !.variant_id = variant_id] :
        change \in PriceChanges,
        product_id \in {"1", "gid://shopify/Product/2", "9"},
        variant_id \in {"", "1", "12", "2", "gid://shopify/ProductVariant/1"}}

BulkPriceParams == [updates : ListsUpTo(PriceUpdates, MaxPriceUpdates)]

CollectionPriceParams ==
    [collection_id : {"1", "7"},
     price_change_percent : {0, 10, -20, -150},
     price_change_amount : {"", "5.00", "-12.00"},
     set_compare_at_from_current : BOOLEAN]

InitPrices ==
    /\ env_domain \in {"", ShopDomain}
    /\ now = NoonNow
    /\ store \in PriceShops
    /\ Idle

NextPrices ==
    \/ BulkUpdatePrices(BulkPriceParams)
    \/ CollectionPriceUpdate(CollectionPriceParams)
    \/ Respond

SpecPrices == InitPrices /\ [][NextPrices]_vars

\* shopify_bulk_update_prices has run
BulkPricesDone == tool = "shopify_bulk_update_prices"

\* shopify_collection_price_update has run through its products
CollectionPricesDone ==
    tool = "shopify_collection_price_update" /\ "results" \in DOMAIN result

\* the ids of the variants a mutation gives a price
VariantIdsOf(mutation) == {mutation.variants[k].id : k \in 1..Len(mutation.variants)}

\* the ids of the variants of the product
ProductVariantIds(productId) ==
    LET product == shopProduct(store, productId)
    IN {product.variants[k].id : k \in 1..Len(product.variants)}

\* C24: in shopify_bulk_update_prices an update that names a variant_id has
\* its price change sent for the variant with that id only, and an update
\* without variant_id has it sent for every variant of the product
C24_OnlyTheNamedVariant ==
    BulkPricesDone =>
        \A i \in 1..Len(sent.mutations) :
            LET mutation == sent.mutations[i]
                update   == params.updates[mutation.item]
            IN IF update.variant_id = ""
               THEN VariantIdsOf(mutation) = ProductVariantIds(mutation.productId)
               ELSE VariantIdsOf(mutation)
                       \subseteq {toGid("ProductVariant", update.variant_id)}

\* the text is a price that is not negative
IsNonNegativePrice(price) ==
    /\ IsFinite(parseFloat(price))
    /\ NGe(parseFloat(price), Num(0))

\* the variant of the fetched products with the id
FetchedVariant(id) ==
    CHOOSE v \in UNION {Range(fetched.products[i].variants) :
                           i \in 1..Len(fetched.products)} : v.id = id

\* C30: every price the two price tools send is >= 0, and with
\* set_compare_at_from_current the compare-at price sent for a variant is
\* the price the variant had before the change
C30_NoNegativePrice ==
    /\ (BulkPricesDone \/ CollectionPricesDone) =>
          \A i \in 1..Len(sent.mutations) :
             \A k \in 1..Len(sent.mutations[i].variants) :
                IsNonNegativePrice(sent.mutations[i].variants[k].price)
    /\ (CollectionPricesDone /\ params.set_compare_at_from_current) =>
          \A i \in 1..Len(sent.mutations) :
             \A k \in 1..Len(sent.mutations[i].variants) :
                LET u == sent.mutations[i].variants[k]
                IN parseFloat(u.compareAtPrice) = parseFloat(FetchedVariant(u.id).price)


(***************************************************************************)
(* shopify_bulk_update_content and shopify_bulk_product_status: one        *)
(* productUpdate per item.  The shop answers productUpdate with userErrors *)
(* when it refuses the mutation or holds no product with the id, and else  *)
(* gives the product the fields of the input.                              *)
(***************************************************************************)
\* input.seo of shopify_bulk_update_content
seoInputOf(update) ==
    IF update.seo_title # "" /\ update.seo_description # ""
    THEN [title |-> update.seo_title, description |-> update.seo_description]
    ELSE IF update.seo_title # "" THEN [title |-> update.seo_title]
    ELSE [description |-> update.seo_description]

\* const input = { id: productGid }; if (update.title) input.title = ...
\* (tags is an array: an empty one is truthy, so tags is a field the update
\* has or has not)
contentInputOf(update) ==
    LET input0 == [id |-> toGid("Product", update.product_id)]
        input1 == IF update.title # "" THEN WithField(input0, "title", update.title)
                  ELSE input0
        input2 == IF update.description_html # ""
                  THEN WithField(input1, "descriptionHtml", update.description_html)
                  ELSE input1
        input3 == IF "tags" \in DOMAIN update THEN WithField(input2, "tags", update.tags)
                  ELSE input2
    IN IF update.seo_title # "" \/ update.seo_description # ""
       THEN WithField(input3, "seo", seoInputOf(update))
       ELSE input3

\* the product after productUpdate(input)
productAfter(product, input) ==
    [f \in DOMAIN product |->
        IF f = "seo" /\ "seo" \in DOMAIN input
        THEN [g \in DOMAIN product.seo |->
                 IF g \in DOMAIN input.seo THEN input.seo[g] ELSE product.seo[g]]
        ELSE IF f \in DOMAIN input THEN input[f]
        ELSE product[f]]

productRefused(shop, r, input) ==
    r \in shop.refusing \/ shopProduct(shop, input.id) = <<>>

\* the shop after productUpdate(input)
shopAfterProduct(shop, input) ==
    [shop EXCEPT
        !.revision = @ + 1,
        !.products = [i \in 1..Len(@) |->
                         IF @[i].id = input.id THEN productAfter(@[i], input) ELSE @[i]]]

\* try { executeGraphQL(productUpdate, { input }) ... } catch { ... } for one
\* item, which is reported under product_id and, when updated, with the
\* fields of the report
productUpdateStep(run, product_id, input, report) ==
    LET sendError == callError(run)
        refused   == productRefused(run.shop, run.requests + 1, input)
        run1      == [called(run, answerOf(refused)) EXCEPT
                         !.mutations = Append(@, [item |-> Len(run.results) + 1,
                                                  input |-> input])]
        after     == shopAfterProduct(run.shop, input)
    IN IF sendError # ""
       THEN caught(run1, [product_id |-> product_id, error |-> sendError])
       ELSE IF refused
       THEN pushed(run1, [product_id |-> product_id, error |-> UserErrors])
       ELSE pushed([run1 EXCEPT !.shop = after],
                   report @@ [product_id |-> product_id,
                              title |-> shopProduct(after, input.id).title])

\* the body of the loop of shopify_bulk_update_content
contentUpdateStep(run, update) ==
    productUpdateStep(run, update.product_id, contentInputOf(update),
                      [success |-> TRUE])

bulkUpdateContentOf(shop, updates) == EachItem(RunOf(shop), updates, contentUpdateStep)

\* the body of the loop of shopify_bulk_product_status
statusUpdateStep(status, run, productId) ==
    productUpdateStep(run, productId,
                      [id |-> toGid("Product", productId), status |-> status],
                      [new_status |-> status, success |-> TRUE])

bulkProductStatusOf(shop, p) ==
    LET Step(run, productId) == statusUpdateStep(p.status, run, productId)
    IN EachItem(RunOf(shop), p.product_ids, Step)

BulkUpdateContentRun(p) ==
    LET run == bulkUpdateContentOf(store, p.updates)
    IN /\ tool = "none"
       /\ store.revision < MaxRevisions
       /\ tool' = "shopify_bulk_update_content"
       /\ params' = p
       /\ sent' = [NoSent EXCEPT !.requests = run.requests, !.calls = run.calls,
                                 !.mutations = run.mutations]
       /\ fetched' = NoFetch
       /\ locals' = NoLocals
       /\ result' = [results |-> run.results]
       /\ store' = run.shop
       /\ UNCHANGED <<env_domain, now>>

\* shopify_bulk_update_content, its parameters drawn from P
BulkUpdateContent(P) == \E p \in P : BulkUpdateContentRun(p)

BulkProductStatusRun(p) ==
    LET run == bulkProductStatusOf(store, p)
    IN /\ tool = "none"
       /\ store.revision < MaxRevisions
       /\ tool' = "shopify_bulk_product_status"
       /\ params' = p
       /\ sent' = [NoSent EXCEPT !.requests = run.requests, !.calls = run.calls,
                                 !.mutations = run.mutations]
       /\ fetched' = NoFetch
       /\ locals' = NoLocals
       /\ result' = [results |-> run.results]
       /\ store' = run.shop
       /\ UNCHANGED <<env_domain, now>>

\* shopify_bulk_product_status, its parameters drawn from P
BulkProductStatus(P) == \E p \in P : BulkProductStatusRun(p)

(***************************************************************************)
(* shopify_auto_tag_customers.  The shop answers the customers query with  *)
(* the customers that satisfy every term of it, and customerUpdate by      *)
(* giving the customer the tags of the input as they are.                  *)
(***************************************************************************)
\* tag = custom_tag; tag = tag || "<the tag of the criteria>"
DefaultTag(criteria) ==
    CASE criteria = "high_value"   -> "high-value"
      [] criteria = "repeat_buyer" -> "repeat-buyer"
      [] criteria = "recent_buyer" -> "active"
      [] criteria = "at_risk"      -> "at-risk"
      [] criteria = "vip"          -> "vip"
      [] criteria = "new_customer" -> "new-customer"

tagOf(p) == IF p.custom_tag # "" THEN p.custom_tag ELSE DefaultTag(p.criteria)

\* the query of the criteria, a list of terms; a date is the day DateOf gives
customerQueryOf(p, t) ==
    CASE p.criteria = "high_value" ->
            <<[field |-> "total_spent", op |-> ">", value |-> p.threshold_amount]>>
      [] p.criteria = "repeat_buyer" ->
            <<[field |-> "orders_count", op |-> ">=", value |-> p.threshold_orders]>>
      [] p.criteria = "recent_buyer" ->
            <<[field |-> "last_order_date", op |-> ">=",
               value |-> DateOf(t - 30 * HoursPerDay)]>>
      [] p.criteria = "at_risk" ->
            <<[field |-> "last_order_date", op |-> "<",
               value |-> DateOf(t - 60 * HoursPerDay)],
              [field |-> "orders_count", op |-> ">", value |-> 0]>>
      [] p.criteria = "vip" ->
            <<[field |-> "total_spent", op |-> ">", value |-> p.threshold_amount],
              [field |-> "orders_count", op |-> ">=", value |-> p.threshold_orders]>>
      [] p.criteria = "new_customer" ->
            <<[field |-> "orders_count", op |-> "=", value |-> 1]>>

\* the customer satisfies the term of a query
termHolds(customer, term) ==
    CASE term.field = "total_spent" ->
            NGt(parseFloat(customer.totalSpent), parseFloat(term.value))
      [] term.field = "orders_count" ->
            IF term.op = ">=" THEN customer.ordersCount >= term.value
            ELSE IF term.op = ">" THEN customer.ordersCount > term.value
            ELSE customer.ordersCount = term.value
      [] term.field = "last_order_date" ->
            /\ customer.lastOrderAt # NoDate
            /\ IF term.op = ">=" THEN DateOf(customer.lastOrderAt) >= term.value
               ELSE DateOf(customer.lastOrderAt) < term.value

\* customers(first: $first, query: $query)
matchedCustomers(shop, first, query) ==
    FirstN(SelectSeq(shop.customers,
                     LAMBDA customer : \A k \in 1..Len(query) : termHolds(customer, query[k])),
           first)

\* customer.tags.includes(tag)
hasTag(customer, tag) == \E k \in 1..Len(customer.tags) : customer.tags[k] = tag

\* the tags of a mutation that gives the customer the tag alone
newTagsOf_tagOnly(customer, tag) == <<tag>>

\* const newTags = [...customer.tags, tag]
newTagsOf(customer, tag) == Append(customer.tags, tag)

\* the shop after customerUpdate(input)
shopAfterCustomer(shop, input) ==
    [shop EXCEPT
        !.revision = @ + 1,
        !.customers = [i \in 1..Len(@) |->
                          IF @[i].id = input.id THEN [@[i] EXCEPT !.tags = input.tags]
                          ELSE @[i]]]

\* the body of the loop of shopify_auto_tag_customers for one customer
tagStep(tag, run, customer) ==
    LET input     == [id |-> customer.id, tags |-> newTagsOf(customer, tag)]
        sendError == callError(run)
        refused   == run.requests + 1 \in run.shop.refusing
        run1      == [called(run, answerOf(refused)) EXCEPT
                         !.mutations = Append(@, [item |-> Len(run.results) + 1,
                                                  input |-> input])]
    IN IF hasTag(customer, tag)
       THEN pushed(run, [email |-> customer.email, status |-> "already_tagged"])
       ELSE IF sendError # ""
       THEN caught(run1, [email |-> customer.email, status |-> "error",
                          error |-> sendError])
       ELSE IF refused
       THEN pushed(run1, [email |-> customer.email, status |-> "error",
                          error |-> UserErrors])
       ELSE pushed([run1 EXCEPT !.shop = shopAfterCustomer(@, input)],
                   [email |-> customer.email, status |-> "tagged", tag |-> tag])

\* the run of a call whose customers query was answered
autoTagCustomersOf(shop, p, t) ==
    LET Step(run, customer) == tagStep(tagOf(p), run, customer)
    IN EachItem(LoopStart(shop),
                matchedCustomers(shop, p.limit, customerQueryOf(p, t)), Step)

AutoTagCustomersRun(p) ==
    LET thrown == callError(RunOf(store))
        run    == autoTagCustomersOf(store, p, now)
    IN /\ tool = "none"
       /\ tool' = "shopify_auto_tag_customers"
       /\ params' = p
       /\ locals' = NoLocals
       /\ IF thrown # ""
          THEN /\ sent' = [NoSent EXCEPT !.requests = called(RunOf(store), "data").requests]
               /\ fetched' = NoFetch
               /\ result' = [error |-> thrown]
               /\ store' = store
          ELSE /\ sent' = [NoSent EXCEPT !.requests = run.requests,
                                         !.calls = run.calls,
                                         !.mutations = run.mutations]
               /\ fetched' = [NoFetch EXCEPT
                                 !.customers = matchedCustomers(store, p.limit,
                                                                customerQueryOf(p, now))]
               /\ result' = [criteria |-> p.criteria, tag |-> tagOf(p),
                             results |-> run.results]
               /\ store' = run.shop
       /\ UNCHANGED <<env_domain, now>>

\* shopify_auto_tag_customers, its parameters drawn from P
AutoTagCustomers(P) == \E p \in P : AutoTagCustomersRun(p)

(***************************************************************************)
(* SpecBulk: the four bulk loops over a shop of products and a shop of     *)
(* customers, under every pattern of rejected calls among the first        *)
(* MaxFailingCall and some refused mutations                               *)
(***************************************************************************)
MaxBulkItems == 2

TagCustomer(id, tags, ordersCount, totalSpent, lastOrderAt) ==
    [Profile(ordersCount, totalSpent, lastOrderAt, "SUBSCRIBED") EXCEPT
        !.email = "c" \o id \o "@example.com", !.tags = tags]

\* customers that differ in what they match: a big spender of many orders
\* long ago, a recent one, and one of a single order who has the tag
\* high-value already
ShopCustomers ==
    WithIds(<<TagCustomer("1", <<"wholesale">>, 5, "820.00", NoonNow - 100 * HoursPerDay),
              TagCustomer("2", <<>>, 3, "612.50", NoonNow - 3 * HoursPerDay),
              TagCustomer("3", <<"high-value">>, 1, "1500.00", NoonNow - 70 * HoursPerDay)>>)

CallPatterns == SUBSET (1..MaxFailingCall)

BulkShops ==
    {ShopOf(ShopProducts, ShopCollections, <<>>, failing, refusing) :
        failing \in CallPatterns, refusing \in {{}, {1}, {2}}}
    \cup {ShopOf(<<>>, <<>>, FirstN(ShopCustomers, MaxBulkItems), failing, refusing) :
             failing \in CallPatterns, refusing \in {{}, {1}, {2}}}

BulkPriceUpdates ==
    {[NoChange EXCEPT !.product_id = product_id, !.price_change_percent = 10] :
        product_id \in {"1", "gid://shopify/Product/2", "9"}}

NoContent ==
    [product_id |-> "1", title |-> "", description_html |-> "", seo_title |-> "",
     seo_description |-> ""]

ContentUpdates ==
    {[NoContent EXCEPT !.title = "Linen shirt"],
     [NoContent EXCEPT !.product_id = "gid://shopify/Product/2",
                       !.description_html = "<p>A mug</p>", !.seo_title = "Mug"],
     WithField([NoContent EXCEPT !.product_id = "2", !.seo_description = "A mug"],
               "tags", <<>>),
     WithField([NoContent EXCEPT !.seo_title = "Shirts", !.seo_description = "Linen"],
               "tags", <<"linen">>),
     [NoContent EXCEPT !.product_id = "9", !.title = "Ghost"]}

StatusParams ==
    [product_ids : ListsUpTo({"1", "gid://shopify/Product/2", "9"}, MaxBulkItems),
     status : {"ACTIVE", "DRAFT", "ARCHIVED"}]

\* the six criteria, two of them with their own tag and four with the tag
\* of the first as custom_tag
TagParams ==
    {[criteria |-> criteria, threshold_amount |-> "500", threshold_orders |-> 3,
      custom_tag |-> IF criteria \in {"high_value", "at_risk"} THEN "" ELSE "high-value",
      limit |-> limit] :
        criteria \in {"high_value", "repeat_buyer", "recent_buyer", "at_risk", "vip",
                      "new_customer"},
        limit \in {1, 50}}

InitBulk ==
    /\ env_domain \in {"", ShopDomain}
    /\ now = NoonNow
    /\ store \in BulkShops
    /\ Idle

NextBulk ==
    \/ BulkUpdatePrices([updates : ListsUpTo(BulkPriceUpdates, MaxBulkItems)])
    \/ BulkUpdateContent([updates : ListsUpTo(ContentUpdates, MaxBulkItems)])
    \/ BulkProductStatus(StatusParams)
    \/ AutoTagCustomers(TagParams)
    \/ Respond

SpecBulk == InitBulk /\ [][NextBulk]_vars

\* the items of the loop of the call
BulkItems ==
    CASE tool \in {"shopify_bulk_update_prices", "shopify_bulk_update_content"} ->
            [i \in 1..Len(params.updates) |-> params.updates[i].product_id]
      [] tool = "shopify_bulk_product_status" -> params.product_ids
      [] tool = "shopify_auto_tag_customers" ->
            [i \in 1..Len(fetched.customers) |-> fetched.customers[i].email]

\* a bulk loop has run to its end
BulkDone ==
    /\ tool \in {"shopify_bulk_update_prices", "shopify_bulk_update_content",
                 "shopify_bulk_product_status", "shopify_auto_tag_customers"}
    /\ "results" \in DOMAIN result

\* the item at position i, as its entry of the results names it
NamedBy(entry) ==
    IF tool = "shopify_auto_tag_customers" THEN entry.email ELSE entry.product_id

\* a call made for the item at position i has failed: executeGraphQL threw,
\* or the mutation was answered with userErrors
ItemFailed(i) ==
    \E k \in 1..Len(sent.calls) :
        sent.calls[k].item = i /\ sent.calls[k].outcome \in {"thrown", "userErrors"}

\* C25: the loops of shopify_bulk_update_prices, shopify_bulk_update_content,
\* shopify_bulk_product_status and shopify_auto_tag_customers isolate the
\* failure of an item: whatever calls fail, the results hold one entry per
\* item, in the order of the items; the entry of an item with a failed call
\* is an error entry; and the items after it are worked on all the same (a
\* call is made for each item that needs one, and an item none of whose
\* calls failed and whose product exists has an entry without error)
C25_FailuresStayWithTheirItem ==
    BulkDone =>
        /\ Len(result.results) = Len(BulkItems)
        /\ \A i \in 1..Len(BulkItems) :
              /\ NamedBy(result.results[i]) = BulkItems[i]
              /\ ItemFailed(i) => "error" \in DOMAIN result.results[i]
              /\ ("error" \in DOMAIN result.results[i] /\ ~ItemFailed(i))
                    => /\ tool = "shopify_bulk_update_prices"
                       /\ result.results[i].error = "Product not found"
              /\ (\E k \in 1..Len(sent.calls) : sent.calls[k].item = i)
                    \/ /\ tool = "shopify_auto_tag_customers"
                       /\ result.results[i].status = "already_tagged"

\* two items, the first of which failed in a call that threw and the second
\* of which was updated
C25_Witness ==
    /\ BulkDone
    /\ Len(BulkItems) = 2
    /\ \E k \in 1..Len(sent.calls) : sent.calls[k].item = 1 /\ sent.calls[k].outcome = "thrown"
    /\ "error" \in DOMAIN result.results[1]
    /\ "error" \notin DOMAIN result.results[2]
    /\ \E k \in 1..Len(sent.calls) : sent.calls[k].item = 2 /\ sent.calls[k].outcome = "data"

(***************************************************************************)
(* SpecTags: shopify_auto_tag_customers, run after run, over the three     *)
(* customers                                                               *)
(***************************************************************************)
TagShops ==
    {ShopOf(<<>>, <<>>, ShopCustomers, failing, refusing) :
        failing \in CallPatterns, refusing \in {{}, {2}}}

InitTags ==
    /\ env_domain \in {"", ShopDomain}
    /\ now = NoonNow
    /\ store \in TagShops
    /\ Idle

NextTags == AutoTagCustomers(TagParams) \/ Respond

SpecTags == InitTags /\ [][NextTags]_vars

\* the customers query of shopify_auto_tag_customers was answered
AutoTagDone == tool = "shopify_auto_tag_customers" /\ ~IsError

\* the mutations sent for the customer at position i of those fetched
MutationsFor(i) == {k \in 1..Len(sent.mutations) : sent.mutations[k].item = i}

\* every update of the run succeeded
AllTagged ==
    \A i \in 1..Len(result.results) :
        result.results[i].status \in {"tagged", "already_tagged"}

\* the customers the shop would answer the query of the parameters with
MatchedNow(p) == matchedCustomers(store, p.limit, customerQueryOf(p, now))

\* C26: shopify_auto_tag_customers sends an update for a matched customer
\* exactly when the customer's tags do not contain the tag, and the tags it
\* sends are the customer's tags with the tag added; a run in which every
\* update succeeded leaves every matched customer with the tag in the shop,
\* and a run over customers who all have the tag sends no mutation and
\* reports each of them as already_tagged
C26_TagOnceKeepTags ==
    [][(tool' = "shopify_auto_tag_customers" /\ ~("error" \in DOMAIN result'))
        => LET tag     == tagOf(params')
               matched == MatchedNow(params')
           IN /\ fetched'.customers = matched
              /\ \A i \in 1..Len(matched) :
                    /\ Cardinality({k \in 1..Len(sent'.mutations) :
                                       sent'.mutations[k].item = i})
                          = IF hasTag(matched[i], tag) THEN 0 ELSE 1
                    /\ \A k \in 1..Len(sent'.mutations) :
                          sent'.mutations[k].item = i =>
                             LET tags == sent'.mutations[k].input.tags
                             IN /\ sent'.mutations[k].input.id = matched[i].id
                                /\ Len(tags) = Len(matched[i].tags) + 1
                                /\ SubSeq(tags, 1, Len(matched[i].tags)) = matched[i].tags
                                /\ tags[Len(tags)] = tag
              /\ (\A i \in 1..Len(result'.results) :
                     result'.results[i].status \in {"tagged", "already_tagged"})
                    => LET after == matchedCustomers(store', params'.limit,
                                                     customerQueryOf(params', now))
                       IN /\ Len(after) = Len(matched)
                          /\ \A i \in 1..Len(after) :
                                /\ after[i].id = matched[i].id
                                /\ hasTag(after[i], tag)
              /\ (\A i \in 1..Len(matched) : hasTag(matched[i], tag))
                    => /\ sent'.mutations = <<>>
                       /\ Len(result'.results) = Len(matched)
                       /\ \A i \in 1..Len(matched) :
                             result'.results[i] =
                                [email |-> matched[i].email, status |-> "already_tagged"]
                       /\ store' = store]_vars

\* a second run: two customers who were given the tag, and kept the tag they
\* had, by a run before this one are both reported already_tagged and no
\* mutation is sent
C26_Witness ==
    /\ AutoTagDone
    /\ store.revision >= 2
    /\ Len(fetched.customers) >= 2
    /\ sent.mutations = <<>>
    /\ \A i \in 1..Len(result.results) : result.results[i].status = "already_tagged"
    /\ \E i \in 1..Len(fetched.customers) :
          fetched.customers[i].tags = <<"wholesale", tagOf(params)>>

====
